---- MODULE Spec2Model ----
(***************************************************************************)
(* Request verification, classification and handler dispatch of the Clova  *)
(* CEK SDK (cek/core/handler.py, cek/core/models.py).                      *)
(*                                                                         *)
(* A RequestHandler owns one dict, _handlers, filled by the decorators     *)
(* default / launch / event / intent(name) / end, and route_request maps   *)
(* one (body, headers) pair to at most one handler call.                   *)
(***************************************************************************)
EXTENDS Integers, Sequences, FiniteSets, TLC

VARIABLES
    handlers,        \* RequestHandler._handlers
    use_debug_mode,  \* RequestHandler._use_debug_mode
    application_id,  \* RequestHandler._application_id
    last,            \* record of the most recent route_request call
    call,            \* the builder or accessor call under way, with its arguments
    result,          \* what that call returned or raised
    held,            \* the Response object the caller holds
    decoded,         \* the decoded request dict a Request object wraps
    core_handlers,   \* RequestHandler._handlers of cek/core.py
    core_last        \* record of the most recent route_request call of cek/core.py

core_vars == <<core_handlers, core_last>>

vars == <<handlers, use_debug_mode, application_id, last, core_handlers, core_last>>

builder_vars == <<call, result, held, decoded>>

all_vars == <<handlers, use_debug_mode, application_id, last,
              call, result, held, decoded, core_handlers, core_last>>

(***************************************************************************)
(* Bounds                                                                  *)
(***************************************************************************)
\* Most entries (type-level, default and intent handlers together) the
\* handler table is filled with.
MaxHandlers == 3

(***************************************************************************)
(* Keys of the handler table                                               *)
(***************************************************************************)
default_key == "_default_"
launch_key == "LaunchRequest"
intent_key == "IntentRequest"
event_key == "EventRequest"
session_ended_key == "SessionEndedRequest"

\* The same keys as cek/core.py spells them (attributes of RequestHandler).
core_default_key == "_default_"
core_launch_key == "LaunchRequest"
core_intent_key == "IntentRequest"
core_event_key == "EventRequest"
core_end_key == "SessionEndedRequest"

\* The keys a decorator other than intent(name) writes.
FuncKeys == {default_key, launch_key, event_key, session_ended_key}

\* Intent names used in registrations and requests.  "LaunchRequest" is an
\* intent name that collides with a request-type key.
IntentNames == {"TurnOn", "LaunchRequest"}

\* request.type strings that occur in bodies; the last one is not supported.
RequestTypes ==
    {intent_key, event_key, launch_key, session_ended_key, "AudioRequest"}

\* Application ids that occur in bodies.
ApplicationIds == {"com.line.myApplication", "com.line.wrongApplication"}

\* The functions a developer registers.  returns_none is a fire-and-forget
\* handler (no return statement), returns_response returns a response.
HandlerFns == {"returns_none", "returns_response"}

\* Python's None, as a returned value.
None == <<"None">>

(***************************************************************************)
(* Values stored in the handler table: a registered function, or the       *)
(* nested dict that lives under intent_key.                                *)
(***************************************************************************)
Func(f) == [kind |-> "function", fn |-> f]
Dict(d) == [kind |-> "dict", entries |-> d]

\* d[k] = v for a Python dict d modelled as a function.
DictSet(d, k, v) == [x \in DOMAIN d \cup {k} |-> IF x = k THEN v ELSE d[x]]

EmptyDict == [x \in {} |-> None]

\* dict.get(key, dflt)
Get(d, key, dflt) == IF key \in DOMAIN d THEN d[key] ELSE dflt

\* dict.setdefault(key, dflt): the dict afterwards.
SetDefault(d, key, dflt) == IF key \in DOMAIN d THEN d ELSE DictSet(d, key, dflt)

intent_handlers(hs) == hs[intent_key].entries

\* Number of registered functions in the table.
TableSize(hs) ==
    Cardinality(DOMAIN hs \ {intent_key}) + Cardinality(DOMAIN intent_handlers(hs))

(***************************************************************************)
(* Request bodies and headers as they arrive from the transport            *)
(***************************************************************************)
\* The bytes of a JSON body carrying request.type t, request.intent.name n
\* (IntentRequest only) and context.System.application.applicationId a.
Body(t, n, a) == <<"{json}", t, n, a>>

\* Bytes that are not JSON.
GarbageBody == <<"not json">>

Bodies ==
    {Body(intent_key, n, a) : n \in IntentNames, a \in ApplicationIds}
    \cup {Body(t, "", a) : t \in RequestTypes \ {intent_key}, a \in ApplicationIds}
    \cup {GarbageBody}

\* A body that differs from b in one field (the tampered body of the tests).
Tampered(b) ==
    IF b = GarbageBody THEN Body(launch_key, "", "com.line.myApplication")
    ELSE IF b[4] = "com.line.myApplication"
         THEN Body(b[2], b[3], "com.line.wrongApplication")
         ELSE Body(b[2], b[3], "com.line.myApplication")

\* The RSA PKCS#1 v1.5 / SHA-256 signature of body b under the platform's
\* private key: the only byte string the public key accepts for b.
Sign(b) == <<"RSASSA-PKCS1-v1_5", b>>

\* A byte string that is the signature of no body.
ForgedSignature == <<"RSASSA-PKCS1-v1_5", <<"forged">>>>

\* Header values are base64 text; b64decode gives back the encoded bytes.
b64encode(bytes) == [base64 |-> bytes]
b64decode(text) == text.base64

\* str.lower() on the header keys that occur.
lower(key) ==
    CASE key = "SignatureCEK" -> "signaturecek"
      [] key = "Signaturecek" -> "signaturecek"
      [] key = "SIGNATURECEK" -> "signaturecek"
      [] key = "Content-Type" -> "content-type"
      [] OTHER -> key

\* The header dict the tests pass in debug mode: {"": ""}.
mocked_header == [k \in {""} |-> b64encode(<<>>)]

SignatureHeader(key, sig) == [k \in {key} |-> b64encode(sig)]

\* The signatures a client may send along with body b: the genuine one, one
\* taken from another body, and a forged one.
SignaturesFor(b) == {Sign(b), Sign(Tampered(b)), ForgedSignature}

(***************************************************************************)
(* RequestHandler._verify_request                                          *)
(***************************************************************************)
\* public_key.verify(signature, body, PKCS1v15, SHA256): TRUE iff it does
\* not raise InvalidSignature.
public_key_verify(signature, body) == signature = Sign(body)

\* The header dict looked up as it is spelled, without key.lower().
request_header_exact(request_header_dict) == request_header_dict

\* {key.lower(): value for key, value in request_header_dict.items()}
request_header_lowercase(request_header_dict) ==
    LET keys == {lower(k) : k \in DOMAIN request_header_dict}
    IN [x \in keys |->
          request_header_dict[CHOOSE k \in DOMAIN request_header_dict : lower(k) = x]]

\* _verify_request with the result of the signature check dropped: only a
\* missing header is an error.
verify_request_ignores_signature(request_body, request_header_dict) ==
    IF "signaturecek" \notin DOMAIN request_header_lowercase(request_header_dict)
    THEN "KeyError_signaturecek"
    ELSE "none"

\* _verify_request that remembers the pair of the call before and rejects
\* it when it is submitted again.
verify_request_rejects_repeat(request_body, request_header_dict) ==
    LET lc == request_header_lowercase(request_header_dict)
    IN IF "signaturecek" \notin DOMAIN lc THEN "KeyError_signaturecek"
       ELSE IF /\ public_key_verify(b64decode(lc["signaturecek"]), request_body)
               /\ ~(last.body = request_body /\ last.headers = request_header_dict)
            THEN "none"
            ELSE "InvalidSignature"

\* The exception _verify_request raises, or "none".
verify_request(request_body, request_header_dict) ==
    LET lc == request_header_lowercase(request_header_dict)
    IN IF "signaturecek" \notin DOMAIN lc THEN "KeyError_signaturecek"
       ELSE IF public_key_verify(b64decode(lc["signaturecek"]), request_body)
            THEN "none"
            ELSE "InvalidSignature"

(***************************************************************************)
(* json.loads and the request model (cek/core/models.py)                   *)
(***************************************************************************)
json_loads(body) ==
    IF body[1] # "{json}" THEN [ok |-> FALSE]
    ELSE [ok |-> TRUE,
          value |->
            [request |->
               IF body[2] = intent_key
               THEN [type |-> body[2], intent |-> [name |-> body[3]]]
               ELSE [type |-> body[2]],
             context |->
               [System |-> [application |-> [applicationId |-> body[4]]]]]]

\* Request.create whose final else falls back to a LaunchRequest instead of
\* raising.
create_unknown_as_launch(request_dict) ==
    LET request_type == request_dict.request.type
    IN IF request_type \in {intent_key, event_key, session_ended_key}
       THEN [ok |-> TRUE, class |-> request_type, request_dict |-> request_dict]
       ELSE [ok |-> TRUE, class |-> "LaunchRequest", request_dict |-> request_dict]

\* Request.create: the subclass instantiated for request_dict, or the
\* ValueError for an unsupported request type.
create(request_dict) ==
    LET request_type == request_dict.request.type
    IN IF request_type = intent_key
       THEN [ok |-> TRUE, class |-> "IntentRequest", request_dict |-> request_dict]
       ELSE IF request_type = event_key
       THEN [ok |-> TRUE, class |-> "EventRequest", request_dict |-> request_dict]
       ELSE IF request_type = launch_key
       THEN [ok |-> TRUE, class |-> "LaunchRequest", request_dict |-> request_dict]
       ELSE IF request_type = session_ended_key
       THEN [ok |-> TRUE, class |-> "SessionEndedRequest", request_dict |-> request_dict]
       ELSE [ok |-> FALSE, error |-> "ValueError"]

\* Request.type
type(request) == request.request_dict.request.type

\* IntentRequest.name
name(request) == request.request_dict.request.intent.name

\* Request.application_id
request_application_id(request) ==
    request.request_dict.context.System.application.applicationId

\* Request.verify_application_id: TRUE iff ApplicationIdMismatch is raised.
verify_application_id(request, expected) ==
    request_application_id(request) # expected

(***************************************************************************)
(* The registered functions (developer code)                               *)
(***************************************************************************)
\* What handler function f returns when called with request.
HandlerReturn(f, request) ==
    IF f = "returns_none" THEN None ELSE <<"Response", f, type(request)>>

(***************************************************************************)
(* RequestHandler.route_request, statement by statement                    *)
(***************************************************************************)
\* The two checks performed whatever the debug flag says.
verification_always_enabled(debug_mode) == TRUE

\* `if not self._use_debug_mode:` -- TRUE iff the two checks are performed.
verification_enabled(debug_mode) == ~debug_mode

\* handler_fn = self._handlers[self._default_key]
default_lookup(hs) ==
    IF default_key \in DOMAIN hs
    THEN [ok |-> TRUE, handler_fn |-> hs[default_key], via |-> <<default_key>>]
    ELSE [ok |-> FALSE, error |-> "KeyError_default"]

\* select_handler with the precedence reversed: a registered default wins.
select_handler_default_wins(hs, request, dflt) ==
    [handler_fn |-> dflt.handler_fn, via |-> dflt.via]

\* select_handler without the elif branch: type-level handlers are ignored.
select_handler_no_type_level(hs, request, dflt) ==
    IF request.class = "IntentRequest" /\ name(request) \in DOMAIN intent_handlers(hs)
    THEN [handler_fn |-> intent_handlers(hs)[name(request)],
          via |-> <<intent_key, name(request)>>]
    ELSE [handler_fn |-> dflt.handler_fn, via |-> dflt.via]

\* select_handler with `if` in place of `elif`: an IntentRequest whose name
\* is not registered falls through to the lookup by request type.
select_handler_if_for_elif(hs, request, dflt) ==
    IF request.class = "IntentRequest" /\ name(request) \in DOMAIN intent_handlers(hs)
    THEN [handler_fn |-> intent_handlers(hs)[name(request)],
          via |-> <<intent_key, name(request)>>]
    ELSE IF type(request) \in DOMAIN hs
         THEN [handler_fn |-> hs[type(request)], via |-> <<type(request)>>]
         ELSE [handler_fn |-> dflt.handler_fn, via |-> dflt.via]

\* The if / elif that replaces handler_fn by a more specific handler.
select_handler(hs, request, dflt) ==
    LET is_intent_request == request.class = "IntentRequest"
    IN IF is_intent_request
       THEN IF name(request) \in DOMAIN intent_handlers(hs)
            THEN [handler_fn |-> intent_handlers(hs)[name(request)],
                  via |-> <<intent_key, name(request)>>]
            ELSE [handler_fn |-> dflt.handler_fn, via |-> dflt.via]
       ELSE IF type(request) \in DOMAIN hs
            THEN [handler_fn |-> hs[type(request)], via |-> <<type(request)>>]
            ELSE [handler_fn |-> dflt.handler_fn, via |-> dflt.via]

\* The handler's result replaced by an empty response when it is None.
invoke_wraps_none(sel, request) ==
    IF sel.handler_fn.kind = "function"
    THEN [error |-> "none",
          calls |-> <<[fn |-> sel.handler_fn.fn, arg |-> request]>>,
          handler_returned |-> HandlerReturn(sel.handler_fn.fn, request),
          returned |->
              IF HandlerReturn(sel.handler_fn.fn, request) = None
              THEN <<"Response", "empty", type(request)>>
              ELSE HandlerReturn(sel.handler_fn.fn, request)]
    ELSE [error |-> "TypeError_not_callable", calls |-> <<>>,
          handler_returned |-> <<"nothing">>, returned |-> <<"raised">>]

\* return handler_fn(request) attempted a second time after the first call.
invoke_twice(sel, request) ==
    IF sel.handler_fn.kind = "function"
    THEN [error |-> "none",
          calls |-> <<[fn |-> sel.handler_fn.fn, arg |-> request],
                      [fn |-> sel.handler_fn.fn, arg |-> request]>>,
          handler_returned |-> HandlerReturn(sel.handler_fn.fn, request),
          returned |-> HandlerReturn(sel.handler_fn.fn, request)]
    ELSE [error |-> "TypeError_not_callable", calls |-> <<>>,
          handler_returned |-> <<"nothing">>, returned |-> <<"raised">>]

\* return handler_fn(request)
invoke(sel, request) ==
    IF sel.handler_fn.kind = "function"
    THEN [error |-> "none",
          calls |-> <<[fn |-> sel.handler_fn.fn, arg |-> request]>>,
          handler_returned |-> HandlerReturn(sel.handler_fn.fn, request),
          returned |-> HandlerReturn(sel.handler_fn.fn, request)]
    ELSE [error |-> "TypeError_not_callable", calls |-> <<>>,
          handler_returned |-> <<"nothing">>, returned |-> <<"raised">>]

\* The outcome of a call that raises `error` after the steps in `steps`.
Raise(error, steps) ==
    [error |-> error, calls |-> <<>>, handler_returned |-> <<"nothing">>,
     returned |-> <<"raised">>, via |-> <<>>, steps |-> steps]

\* The whole of route_request on table hs.
route_outcome(hs, debug_mode, app_id, request_body, request_header_dict) ==
    LET checks == verification_enabled(debug_mode)
        v == IF checks THEN verify_request(request_body, request_header_dict) ELSE "none"
        s1 == IF checks THEN <<"verify">> ELSE <<>>
        js == json_loads(request_body)
        s2 == Append(s1, "decode")
        dflt == default_lookup(hs)
        s3 == Append(s2, "default_lookup")
        cr == create(js.value)
        s4 == Append(s3, "create")
        s5 == IF checks THEN Append(s4, "verify_application_id") ELSE s4
        sel == select_handler(hs, cr, dflt)
        s6 == Append(s5, "select")
        inv == invoke(sel, cr)
    IN IF v # "none" THEN Raise(v, s1)
       ELSE IF ~js.ok THEN Raise("JSONDecodeError", s2)
       ELSE IF ~dflt.ok THEN Raise(dflt.error, s3)
       ELSE IF ~cr.ok THEN Raise(cr.error, s4)
       ELSE IF checks /\ verify_application_id(cr, app_id)
            THEN Raise("ApplicationIdMismatch", s5)
       ELSE [error |-> inv.error, calls |-> inv.calls,
             handler_returned |-> inv.handler_returned,
             returned |-> inv.returned, via |-> sel.via,
             steps |-> Append(s6, "invoke")]

(***************************************************************************)
(* State machine                                                           *)
(***************************************************************************)
\* `last` before the first route_request call.
NoCall ==
    [body |-> <<>>, headers |-> EmptyDict, outcome |-> Raise("none", <<>>),
     replay |-> FALSE, first_verdict |-> "no call"]

\* No builder or accessor call has been made, and no Response is held.
NoOperation == [op |-> "none"]

Pending == [status |-> "pending"]

NoResponse == [held |-> FALSE]

\* No request has been decoded.
NoRequest == [decoded |-> FALSE]

\* RequestHandler.__init__
Init ==
    /\ handlers = [k \in {intent_key} |-> Dict(EmptyDict)]
    /\ use_debug_mode \in BOOLEAN
    /\ application_id = "com.line.myApplication"
    /\ last = NoCall
    /\ call = NoOperation
    /\ result = Pending
    /\ held = NoResponse
    /\ decoded = NoRequest
    /\ core_handlers = [k \in {core_intent_key} |-> Dict(EmptyDict)]
    /\ core_last = NoCall

\* The table may take one more function under top-level key k (or replace).
Room(k) == k \in DOMAIN handlers \/ TableSize(handlers) < MaxHandlers

RoomIntent(n) ==
    n \in DOMAIN intent_handlers(handlers) \/ TableSize(handlers) < MaxHandlers

\* self._handlers[key] = func, shared by default / launch / event / end.
register(key, func) ==
    /\ Room(key)
    /\ handlers' = DictSet(handlers, key, Func(func))
    /\ UNCHANGED <<use_debug_mode, application_id, last>>
    /\ UNCHANGED builder_vars
    /\ UNCHANGED core_vars

\* @clova_handler.default
default == \E func \in HandlerFns : register(default_key, func)

\* @clova_handler.launch
launch == \E func \in HandlerFns : register(launch_key, func)

\* @clova_handler.event
event == \E func \in HandlerFns : register(event_key, func)

\* @clova_handler.end
end == \E func \in HandlerFns : register(session_ended_key, func)

\* @clova_handler.intent(name)
intent ==
    \E n \in IntentNames, func \in HandlerFns :
        /\ RoomIntent(n)
        /\ handlers' =
             DictSet(handlers, intent_key,
                     Dict(DictSet(intent_handlers(handlers), n, Func(func))))
        /\ UNCHANGED <<use_debug_mode, application_id, last>>
        /\ UNCHANGED builder_vars
        /\ UNCHANGED core_vars

\* The header dicts submitted with body b: the tests' mocked header, which
\* carries no signature, and a SignatureCEK header for each signature.
HeadersFor(b) ==
    {mocked_header}
    \cup {SignatureHeader("SignatureCEK", sig) : sig \in SignaturesFor(b)}

\* What the signature check of a finished call decided.
Verdict(outcome) ==
    IF outcome.steps = <<>> THEN "no call"
    ELSE IF outcome.steps[1] # "verify" THEN "skipped"
    ELSE IF Len(outcome.steps) = 1 THEN "rejected"
    ELSE "accepted"

\* One call route_request(request_body, request_header_dict).  `replay` and
\* `first_verdict` record whether the same pair was submitted by the call
\* before, and what the signature check decided then.
route_request ==
    \E request_body \in Bodies :
      \E request_header_dict \in HeadersFor(request_body) :
        LET replay == /\ last.body = request_body
                      /\ last.headers = request_header_dict
        IN /\ last' =
                [body |-> request_body,
                 headers |-> request_header_dict,
                 outcome |-> route_outcome(handlers, use_debug_mode, application_id,
                                           request_body, request_header_dict),
                 replay |-> replay,
                 first_verdict |->
                     IF replay THEN Verdict(last.outcome) ELSE "no call"]
           /\ UNCHANGED <<handlers, use_debug_mode, application_id>>
           /\ UNCHANGED builder_vars
           /\ UNCHANGED core_vars

Next == default \/ launch \/ event \/ end \/ intent \/ route_request

Spec == Init /\ [][Next]_all_vars

(***************************************************************************)
(* Vocabulary of the properties                                            *)
(***************************************************************************)
Range(seq) == {seq[i] : i \in 1 .. Len(seq)}

\* A route_request call is on record in l.
Called(l) == l.outcome.steps # <<>>

\* The body of the call in l is JSON.
IsJson(l) == Called(l) /\ l.body[1] = "{json}"

BodyType(l) == l.body[2]
BodyName(l) == l.body[3]
BodyApplicationId(l) == l.body[4]

SupportedTypes == {intent_key, event_key, launch_key, session_ended_key}

\* The headers of the call in l carry the genuine signature of its body
\* under some spelling of the SignatureCEK key.
WellSigned(l) ==
    \E k \in DOMAIN l.headers :
        /\ lower(k) = "signaturecek"
        /\ l.headers[k] = b64encode(Sign(l.body))

\* The call in l is one the dispatcher accepts for selection: its body is a
\* request of a supported type and, unless debug mode is on, it is
\* genuinely signed and addressed to this application.
Dispatchable(l) ==
    /\ IsJson(l)
    /\ BodyType(l) \in SupportedTypes
    /\ use_debug_mode \/ (WellSigned(l) /\ BodyApplicationId(l) = application_id)

\* The Request object the call in l parses its body into.
ParsedRequest(l) == create(json_loads(l.body).value)

\* The call in l invoked exactly the function f, once, with the parsed
\* request, and no other function.
InvokedOnly(l, f) ==
    /\ l.outcome.error = "none"
    /\ l.outcome.calls = <<[fn |-> f, arg |-> ParsedRequest(l)]>>

\* A step of route_request (a step that leaves a new call on record).
RouteStep == last' # last

(***************************************************************************)
(* C1 -- Dispatch precedence for intents.  Whenever route_request runs on  *)
(* a table holding both an intent handler for name N and a default handler *)
(* (and any type-level handlers), a dispatchable IntentRequest named N     *)
(* invokes the function registered for N, once, and nothing else.          *)
(***************************************************************************)
C1_IntentHandlerWins ==
    [][ ( /\ RouteStep
          /\ Dispatchable(last')
          /\ BodyType(last') = intent_key
          /\ BodyName(last') \in DOMAIN intent_handlers(handlers)
          /\ default_key \in DOMAIN handlers )
        => /\ InvokedOnly(last', intent_handlers(handlers)[BodyName(last')].fn)
           /\ last'.outcome.via = <<intent_key, BodyName(last')>> ]_vars

\* An IntentRequest named "LaunchRequest" was routed to its intent handler
\* in a table that also holds a default and a launch handler bound to the
\* other function.
C1_Witness ==
    /\ IsJson(last)
    /\ BodyType(last) = intent_key
    /\ BodyName(last) = "LaunchRequest"
    /\ last.outcome.via = <<intent_key, "LaunchRequest">>
    /\ Len(last.outcome.calls) = 1
    /\ {default_key, launch_key} \subseteq DOMAIN handlers
    /\ "LaunchRequest" \in DOMAIN intent_handlers(handlers)
    /\ intent_handlers(handlers)["LaunchRequest"].fn = last.outcome.calls[1].fn
    /\ handlers[default_key].fn # last.outcome.calls[1].fn
    /\ handlers[launch_key].fn # last.outcome.calls[1].fn

C3_UnregisteredIntentToDefault ==
    [][ ( /\ RouteStep
          /\ Dispatchable(last')
          /\ BodyType(last') = intent_key
          /\ BodyName(last') \notin DOMAIN intent_handlers(handlers) )
        => /\ last'.outcome.error # "TypeError_not_callable"
           /\ IF default_key \in DOMAIN handlers
              THEN /\ InvokedOnly(last', handlers[default_key].fn)
                   /\ last'.outcome.via = <<default_key>>
              ELSE /\ last'.outcome.calls = <<>>
                   /\ last'.outcome.error = "KeyError_default" ]_vars

\* An IntentRequest named "LaunchRequest", for which no intent handler is
\* registered, went to the default handler although a launch handler bound
\* to the other function is registered.
C3_Witness ==
    /\ IsJson(last)
    /\ BodyType(last) = intent_key
    /\ BodyName(last) = "LaunchRequest"
    /\ last.outcome.via = <<default_key>>
    /\ Len(last.outcome.calls) = 1
    /\ DOMAIN intent_handlers(handlers) = {}
    /\ {default_key, launch_key} \subseteq DOMAIN handlers
    /\ handlers[launch_key].fn # last.outcome.calls[1].fn

(***************************************************************************)
(* C4 -- The default handler is only a fallback.  Whenever route_request   *)
(* runs a dispatchable request for which a matching handler is registered  *)
(* (its intent name, or its request type), that handler is invoked even if *)
(* no default handler is registered; the missing-handler error is raised   *)
(* only when neither a matching nor a default handler is registered.       *)
(***************************************************************************)
MatchingRegistered(hs, l) ==
    IF BodyType(l) = intent_key
    THEN BodyName(l) \in DOMAIN intent_handlers(hs)
    ELSE BodyType(l) \in DOMAIN hs

MatchingFn(hs, l) ==
    IF BodyType(l) = intent_key
    THEN intent_handlers(hs)[BodyName(l)].fn
    ELSE hs[BodyType(l)].fn

C4_DefaultOnlyFallback ==
    [][ (RouteStep /\ Dispatchable(last'))
        => /\ MatchingRegistered(handlers, last')
                => InvokedOnly(last', MatchingFn(handlers, last'))
           /\ last'.outcome.error = "KeyError_default"
                => /\ ~MatchingRegistered(handlers, last')
                   /\ default_key \notin DOMAIN handlers ]_vars

(***************************************************************************)
(* C5 -- Unverified requests never reach a handler.  With verification     *)
(* enabled, a call whose headers do not carry the genuine signature of its *)
(* body (forged signature, signature of another body, no signature header) *)
(* ends with the verification error after the verification step alone: the *)
(* body is not decoded and no handler is invoked, whatever the table.      *)
(***************************************************************************)
C5_BadSignatureStopsDispatch ==
    (Called(last) /\ ~use_debug_mode /\ ~WellSigned(last))
    => /\ last.outcome.calls = <<>>
       /\ last.outcome.steps = <<"verify">>
       /\ last.outcome.error \in {"InvalidSignature", "KeyError_signaturecek"}
       /\ last.outcome.error = "KeyError_signaturecek"
            <=> \A k \in DOMAIN last.headers : lower(k) # "signaturecek"

\* A body that is a well-formed LaunchRequest for this application, sent
\* with the signature of another body, was rejected while a launch and a
\* default handler were registered.
C5_Witness ==
    /\ ~use_debug_mode
    /\ IsJson(last)
    /\ BodyType(last) = launch_key
    /\ BodyApplicationId(last) = application_id
    /\ last.headers = SignatureHeader("SignatureCEK", Sign(Tampered(last.body)))
    /\ last.outcome.error = "InvalidSignature"
    /\ {default_key, launch_key} \subseteq DOMAIN handlers

(***************************************************************************)
(* C6 -- Application id check.  With verification enabled, a genuinely     *)
(* signed request of a supported type whose applicationId differs from the *)
(* configured one fails with ApplicationIdMismatch and invokes no handler; *)
(* verify_application_id raises exactly when the two ids differ.           *)
(***************************************************************************)
C6_ApplicationIdMismatchRaised ==
    ( /\ IsJson(last)
      /\ ~use_debug_mode
      /\ WellSigned(last)
      /\ BodyType(last) \in SupportedTypes )
    => /\ verify_application_id(ParsedRequest(last), application_id)
            <=> BodyApplicationId(last) # application_id
       /\ BodyApplicationId(last) # application_id
            => /\ last.outcome.error = "ApplicationIdMismatch"
               /\ last.outcome.calls = <<>>

(***************************************************************************)
(* C7 -- Replays.  As claimed: with verification enabled, a (body,         *)
(* signature) pair submitted a second time invokes no handler.             *)
(***************************************************************************)
C7_ReplayNeverDispatched ==
    (last.replay /\ ~use_debug_mode) => last.outcome.calls = <<>>

(***************************************************************************)
(* C7, amended -- With verification enabled, a resubmitted (body,          *)
(* signature) pair is verified exactly as on its first submission, since   *)
(* verification keeps no record of earlier requests: it passes the         *)
(* signature check iff the signature is the genuine one for the body, so a *)
(* replayed pair that does not verify never reaches a handler and a        *)
(* replayed genuine pair passes verification again.                        *)
(***************************************************************************)
C7_ReplayVerifiedAsFirst ==
    (last.replay /\ ~use_debug_mode)
    => /\ Verdict(last.outcome) = last.first_verdict
       /\ Verdict(last.outcome) = "accepted" <=> WellSigned(last)
       /\ ~WellSigned(last) => last.outcome.calls = <<>>

\* A genuinely signed pair submitted for the second time reached a handler.
C7_Witness ==
    /\ last.replay
    /\ ~use_debug_mode
    /\ WellSigned(last)
    /\ last.first_verdict = "accepted"
    /\ Len(last.outcome.calls) = 1

(***************************************************************************)
(* C8 -- Debug mode.  With debug_mode true route_request runs neither the  *)
(* signature check nor the application-id check: whatever the headers and  *)
(* the body's applicationId, the call ends exactly as a verified call (run *)
(* with verification enabled, genuine signature, configured application    *)
(* id) of a request with the same type and intent name ends on the same    *)
(* table -- same error, same selected entry, same function invoked, same   *)
(* return value.                                                           *)
(***************************************************************************)
\* The body of l readdressed to the configured application.
Readdressed(l) == Body(BodyType(l), BodyName(l), application_id)

\* How the verified call corresponding to l ends on table hs.
VerifiedTwin(hs, l) ==
    route_outcome(hs, FALSE, application_id, Readdressed(l),
                  SignatureHeader("SignatureCEK", Sign(Readdressed(l))))

\* The functions invoked, in order.
FnsOf(calls) == [i \in 1 .. Len(calls) |-> calls[i].fn]

\* How a call ends: its error, the table entry selected, the functions
\* invoked and the value returned.
Ending(outcome) ==
    [error |-> outcome.error, via |-> outcome.via,
     fns |-> FnsOf(outcome.calls), returned |-> outcome.returned]

C8_DebugSkipsChecks ==
    [][ (RouteStep /\ use_debug_mode /\ IsJson(last'))
        => /\ "verify" \notin Range(last'.outcome.steps)
           /\ "verify_application_id" \notin Range(last'.outcome.steps)
           /\ Ending(last'.outcome) = Ending(VerifiedTwin(handlers, last')) ]_vars

\* In debug mode a request for another application, sent with the mocked
\* header that carries no signature, reached a handler.
C8_Witness ==
    /\ use_debug_mode
    /\ IsJson(last)
    /\ last.headers = mocked_header
    /\ BodyApplicationId(last) # application_id
    /\ Len(last.outcome.calls) = 1

C10_ResultVerbatim ==
    Called(last)
    => IF last.outcome.error = "none"
       THEN /\ Len(last.outcome.calls) = 1
            /\ last.outcome.calls[1].arg = ParsedRequest(last)
            /\ last.outcome.handler_returned
                 = HandlerReturn(last.outcome.calls[1].fn, last.outcome.calls[1].arg)
            /\ last.outcome.returned = last.outcome.handler_returned
       ELSE /\ last.outcome.calls = <<>>
            /\ last.outcome.returned = <<"raised">>

\* An EventRequest was handled by a function that returns None, and
\* route_request returned None.
C10_Witness ==
    /\ IsJson(last)
    /\ BodyType(last) = event_key
    /\ last.outcome.via = <<event_key>>
    /\ Len(last.outcome.calls) = 1
    /\ last.outcome.calls[1].fn = "returns_none"
    /\ last.outcome.returned = None

(***************************************************************************)
(* Speech values and responses (SpeechBuilder, ResponseBuilder, Response)  *)
(***************************************************************************)

\* Longest list of messages or speech values handed to a builder.
MaxListLen == 2

supported_languages == {"en", "ja", "ko"}

\* Language codes the tests reject, and the empty code.
UnsupportedLanguages == {"es", "jp", ""}

Languages == supported_languages \cup UnsupportedLanguages

\* A keyword argument left out (or passed as None), and one that is given.
Omitted == [given |-> FALSE]

Given(v) == [given |-> TRUE, value |-> v]

\* The value of a keyword argument whose default is dflt.
Arg(a, dflt) == IF a.given THEN a.value ELSE dflt

\* How a call ends: with a return value or with a raised exception.
Returned(v) == [status |-> "returned", value |-> v]

Raised(e) == [status |-> "raised", error |-> e]

validate_language(lang) ==
    IF lang \notin supported_languages
    THEN Raised("ValueError")
    ELSE Returned(lang)

\* SpeechBuilder.__init__ / ResponseBuilder.__init__ / Clova.__init__: the
\* builder is identified by its default language.
SpeechBuilder(default_language) == validate_language(default_language)

ResponseBuilder(default_language) ==
    LET validated == validate_language(default_language)
    IN IF validated.status = "raised" THEN validated
       ELSE SpeechBuilder(default_language)

Clova(default_language) ==
    LET speechBuilder == SpeechBuilder(default_language)
    IN IF speechBuilder.status = "raised" THEN speechBuilder
       ELSE ResponseBuilder(default_language)

speech_info(t, value, language) ==
    [type |-> t, lang |-> language, value |-> value]

\* plain_text that ignores the language argument.
plain_text_uses_default(default_language, message, language) ==
    LET validated == validate_language(default_language)
    IN IF validated.status = "raised" THEN validated
       ELSE Returned(speech_info("PlainText", message, validated.value))

\* plain_text without the language check.
plain_text_unvalidated(default_language, message, language) ==
    Returned(speech_info("PlainText", message,
                         IF language.given THEN language.value
                         ELSE default_language))

\* SpeechBuilder.plain_text(message, language=None)
plain_text(default_language, message, language) ==
    LET lang == IF ~language.given THEN default_language ELSE language.value
        validated == validate_language(lang)
    IN IF validated.status = "raised" THEN validated
       ELSE Returned(speech_info("PlainText", message, validated.value))

\* SpeechBuilder.url(url)
url(u) == speech_info("URL", u, "")

\* SpeechBuilder.simple_speech(speech_value)
simple_speech(speech_value) ==
    [type |-> "SimpleSpeech", values |-> speech_value]

\* SpeechBuilder.speech_list(speech_values)
speech_list(speech_values) ==
    [type |-> "SpeechList", values |-> speech_values]

\* SpeechBuilder.speech_set(brief, verbose): no check of either argument.
speech_set(brief, verbose) ==
    Returned([type |-> "SpeechSet", brief |-> brief, verbose |-> verbose])

\* ResponseBuilder._template()
template ==
    [version |-> "1.0",
     sessionAttributes |-> EmptyDict,
     response |-> [outputSpeech |-> EmptyDict,
                   card |-> EmptyDict,
                   directives |-> <<>>,
                   shouldEndSession |-> TRUE]]

\* The builders' tail without the assignment of shouldEndSession.
fill_keeps_template_end(output_speech, end_session) ==
    [template EXCEPT !.response.outputSpeech = output_speech]

\* response['response']['outputSpeech'] = ...; ['shouldEndSession'] =
\* end_session; return Response(response), the tail of every builder.
fill(output_speech, end_session) ==
    [template EXCEPT !.response.outputSpeech = output_speech,
                     !.response.shouldEndSession = Arg(end_session, FALSE)]

\* ResponseBuilder.simple_speech(speech_value, end_session=False)
rb_simple_speech(speech_value, end_session) ==
    fill(simple_speech(speech_value), end_session)

\* ResponseBuilder.speech_list(speech_values, end_session=False)
rb_speech_list(speech_values, end_session) ==
    fill(speech_list(speech_values), end_session)

\* ResponseBuilder.simple_speech_text(message, language=None, end_session=False)
rb_simple_speech_text(default_language, message, language, end_session) ==
    LET lang == IF ~language.given THEN default_language ELSE language.value
        validated == validate_language(lang)
    IN IF validated.status = "raised" THEN validated
       ELSE LET speech_value ==
                    plain_text(default_language, message, Given(validated.value))
            IN IF speech_value.status = "raised" THEN speech_value
               ELSE Returned(rb_simple_speech(speech_value.value, end_session))

\* ResponseBuilder.speech_url(message, url, language=None, end_session=False)
rb_speech_url(default_language, message, u, language, end_session) ==
    LET lang == IF ~language.given THEN default_language ELSE language.value
        validated == validate_language(lang)
    IN IF validated.status = "raised" THEN validated
       ELSE LET plain_text_value ==
                    plain_text(default_language, message, Given(validated.value))
            IN IF plain_text_value.status = "raised" THEN plain_text_value
               ELSE Returned(rb_speech_list(<<plain_text_value.value, url(u)>>,
                                            end_session))

\* ResponseBuilder.speech_set(brief, verbose, end_session=False)
rb_speech_set(brief, verbose, end_session) ==
    LET output_speech == speech_set(brief, verbose)
    IN IF output_speech.status = "raised" THEN output_speech
       ELSE Returned(fill(output_speech.value, end_session))

\* add_reprompt that leaves shouldEndSession as it was.
add_reprompt_keeps_end(resp, speech) ==
    [resp EXCEPT !.response =
        DictSet(@, "reprompt", [outputSpeech |-> speech])]

\* ResponseBuilder.add_reprompt(response, speech): mutates and returns it.
add_reprompt(resp, speech) ==
    [resp EXCEPT !.response =
        DictSet(DictSet(@, "shouldEndSession", FALSE),
                "reprompt", [outputSpeech |-> speech])]

\* Response.reprompt = value (the property setter)
set_reprompt(resp, value) ==
    [resp EXCEPT !.response =
        DictSet(DictSet(@, "shouldEndSession", FALSE),
                "reprompt", [outputSpeech |-> value])]

\* Response(dict): the Response made of a dict a handler wrote by hand.
Response(d) == d

\* Response.reprompt (the property getter): the value read, and the
\* Response afterwards: self['response'].setdefault('reprompt', {}).
get_reprompt(resp) == Get(resp.response, "reprompt", EmptyDict)

after_get_reprompt(resp) ==
    [resp EXCEPT !.response = SetDefault(@, "reprompt", EmptyDict)]

\* Response.session_attributes (getter): self.setdefault('sessionAttributes', {}).
get_session_attributes(resp) == Get(resp, "sessionAttributes", EmptyDict)

after_get_session_attributes(resp) ==
    SetDefault(resp, "sessionAttributes", EmptyDict)

\* The setter writing the attributes into the response sub-object.
set_session_attributes_under_response(resp, value) ==
    [resp EXCEPT !.response = DictSet(@, "sessionAttributes", value)]

\* Response.session_attributes = value (setter)
set_session_attributes(resp, value) == DictSet(resp, "sessionAttributes", value)

(***************************************************************************)
(* Clova.response and its message normalisation                            *)
(***************************************************************************)

\* The objects a caller may pass as message or reprompt, tagged with their
\* Python class.
Str(text) == [cls |-> "str", value |-> text]

Message(text, language) ==
    [cls |-> "Message", text |-> text, language |-> language]

URL(u) == [cls |-> "URL", value |-> u]

List(items) == [cls |-> "list", items |-> items]

MessageSet(brief, verbose) ==
    [cls |-> "MessageSet", brief |-> brief, verbose |-> verbose]

Number == [cls |-> "int", number |-> 5]

NoneObject == [cls |-> "NoneType"]

\* _response_value that resolves a value of any other type to a PlainText.
response_value_accepts_any(default_language, message) ==
    IF message.cls = "Message"
    THEN plain_text(default_language, message.text, message.language)
    ELSE IF message.cls = "URL"
    THEN Returned(url(message.value))
    ELSE plain_text(default_language, "", Omitted)

\* Clova._response_value(message)
response_value(default_language, message) ==
    IF message.cls = "Message"
    THEN plain_text(default_language, message.text, message.language)
    ELSE IF message.cls = "str"
    THEN plain_text(default_language, message.value, Omitted)
    ELSE IF message.cls = "URL"
    THEN Returned(url(message.value))
    ELSE Raised("TypeError")

\* _response_values that collects the values in reverse order.
RECURSIVE response_values_reversed(_, _)
response_values_reversed(default_language, messages) ==
    IF messages = <<>> THEN Returned(<<>>)
    ELSE LET value == response_value(default_language, Head(messages))
         IN IF value.status = "raised" THEN value
            ELSE LET rest == response_values_reversed(default_language,
                                                      Tail(messages))
                 IN IF rest.status = "raised" THEN rest
                    ELSE Returned(rest.value \o <<value.value>>)

\* Clova._response_values(messages): the loop resolves the elements in
\* order and stops at the first one that raises.
RECURSIVE response_values(_, _)
response_values(default_language, messages) ==
    IF messages = <<>> THEN Returned(<<>>)
    ELSE LET value == response_value(default_language, Head(messages))
         IN IF value.status = "raised" THEN value
            ELSE LET rest == response_values(default_language, Tail(messages))
                 IN IF rest.status = "raised" THEN rest
                    ELSE Returned(<<value.value>> \o rest.value)

\* The verbose branch that builds a SpeechList for a single value too.
verbose_speech_always_list(default_language, verbose) ==
    LET verbose_values ==
            response_values(default_language,
                            IF verbose.cls = "list" THEN verbose.items
                            ELSE <<verbose>>)
    IN IF verbose_values.status = "raised" THEN verbose_values
       ELSE Returned(speech_list(verbose_values.value))

\* The verbose branch shared by Clova._response_speech and Clova.response:
\* a list becomes a SpeechList, anything else a SimpleSpeech.
verbose_speech(default_language, verbose) ==
    IF verbose.cls = "list"
    THEN LET verbose_values == response_values(default_language, verbose.items)
         IN IF verbose_values.status = "raised" THEN verbose_values
            ELSE Returned(speech_list(verbose_values.value))
    ELSE LET verbose_value == response_value(default_language, verbose)
         IN IF verbose_value.status = "raised" THEN verbose_value
            ELSE Returned(simple_speech(verbose_value.value))

\* Clova._response_speech(message)
response_speech(default_language, message) ==
    IF message.cls = "list"
    THEN LET speech_values == response_values(default_language, message.items)
         IN IF speech_values.status = "raised" THEN speech_values
            ELSE Returned(speech_list(speech_values.value))
    ELSE IF message.cls = "MessageSet"
    THEN LET brief_value == response_value(default_language, message.brief)
         IN IF brief_value.status = "raised" THEN brief_value
            ELSE LET verbose == verbose_speech(default_language, message.verbose)
                 IN IF verbose.status = "raised" THEN verbose
                    ELSE speech_set(brief_value.value, verbose.value)
    ELSE LET speech_value == response_value(default_language, message)
         IN IF speech_value.status = "raised" THEN speech_value
            ELSE Returned(simple_speech(speech_value.value))

\* The first half of Clova.response: the response built from message.
response_message(default_language, message, end_session) ==
    IF message.cls = "list"
    THEN LET speech_values == response_values(default_language, message.items)
         IN IF speech_values.status = "raised" THEN speech_values
            ELSE Returned(rb_speech_list(speech_values.value, end_session))
    ELSE IF message.cls = "MessageSet"
    THEN LET brief_value == response_value(default_language, message.brief)
         IN IF brief_value.status = "raised" THEN brief_value
            ELSE LET verbose == verbose_speech(default_language, message.verbose)
                 IN IF verbose.status = "raised" THEN verbose
                    ELSE rb_speech_set(brief_value.value, verbose.value,
                                       end_session)
    ELSE LET value == response_value(default_language, message)
         IN IF value.status = "raised" THEN value
            ELSE Returned(rb_simple_speech(value.value, end_session))

\* Clova.response(message, reprompt=None, end_session=False)
clova_response(default_language, message, reprompt, end_session) ==
    LET built == response_message(default_language, message,
                                  Given(Arg(end_session, FALSE)))
    IN IF built.status = "raised" THEN built
       ELSE IF reprompt.given
       THEN LET speech == response_speech(default_language, reprompt.value)
            IN IF speech.status = "raised" THEN speech
               ELSE Returned(add_reprompt(built.value, speech.value))
       ELSE built

(***************************************************************************)
(* Calls of the builders: the arguments are drawn when the call is made,   *)
(* one action per operation applies it                                     *)
(***************************************************************************)

Texts == {"Hi"}

Urls == {"https://dummy.mp3"}

EndSessions == {Omitted, Given(TRUE), Given(FALSE)}

LanguageArgs == {Omitted} \cup {Given(l) : l \in Languages}

\* All sequences over S of length at most n.
SeqsUpTo(S, n) == UNION {[1 .. k -> S] : k \in 0 .. n}

\* Speech values and composites handed to the builders directly.
SpeechValues == {speech_info("PlainText", "Hi", "en"), url("https://dummy.mp3")}

Composites ==
    {simple_speech(speech_info("PlainText", "Hi", "en")),
     speech_list(<<speech_info("PlainText", "Hi", "en"),
                   url("https://dummy.mp3")>>),
     speech_set(speech_info("PlainText", "Hi", "en"),
                simple_speech(url("https://dummy.mp3"))).value}

\* Messages for Clova.response: single values, lists and message sets, with
\* unsupported languages and unsupported types among them.
Atoms ==
    {Str("Hi"), Message("Hi", Omitted), Message("Hi", Given("en")),
     Message("Hi", Given("es")), URL("https://dummy.mp3"), Number, NoneObject}

Elements ==
    {Str("Hi"), Message("Hi", Given("en")), Message("Hi", Given("es")),
     URL("https://dummy.mp3"), Number, List(<<Str("Hi")>>),
     MessageSet(Str("Hi"), Str("Hi"))}

Lists == {List(items) : items \in SeqsUpTo(Elements, MaxListLen)}

Briefs ==
    {Str("Hi"), Message("Hi", Given("en")), Message("Hi", Given("es")),
     Number, List(<<Str("Hi")>>), MessageSet(Str("Hi"), Str("Hi"))}

Verboses == Atoms \cup Lists \cup {MessageSet(Str("Hi"), Str("Hi"))}

MessageSets == {MessageSet(b, v) : b \in Briefs, v \in Verboses}

Messages == Atoms \cup Lists \cup MessageSets

Reprompts ==
    {Omitted}
    \cup {Given(m) : m \in {Str("Hi"), Message("Hi", Given("es")), Number,
                            List(<<Str("Hi"), URL("https://dummy.mp3")>>),
                            List(<<Str("Hi"), Number>>)}}
    \cup {Given(MessageSet(b, v)) :
            b \in {Str("Hi"), Message("Hi", Given("es"))},
            v \in {Str("Hi"), List(<<Str("Hi"), URL("https://dummy.mp3")>>),
                   MessageSet(Str("Hi"), Str("Hi"))}}

\* Session attributes a handler stores in its response.
AttributeDicts == {EmptyDict, [LastTurnedOn |-> Str("Something")]}

\* A response dict written by hand, without the sessionAttributes field.
HandWritten ==
    {[version |-> "1.0",
      response |-> [outputSpeech |-> simple_speech(url("https://dummy.mp3")),
                    card |-> EmptyDict,
                    directives |-> <<>>,
                    shouldEndSession |-> FALSE]]}

Calls ==
    [op : {"SpeechBuilder", "ResponseBuilder", "Clova"},
     default_language : Languages]
    \cup [op : {"plain_text"}, default_language : supported_languages,
          message_text : Texts, language : LanguageArgs]
    \cup [op : {"url"}, default_language : supported_languages, url : Urls]
    \cup [op : {"speech_set"}, brief : SpeechValues, verbose : Composites]
    \cup [op : {"simple_speech_text"}, default_language : supported_languages,
          message_text : Texts, language : LanguageArgs,
          end_session : EndSessions]
    \cup [op : {"simple_speech"}, speech_value : SpeechValues,
          end_session : EndSessions]
    \cup [op : {"speech_list"},
          speech_values : SeqsUpTo(SpeechValues, MaxListLen),
          end_session : EndSessions]
    \cup [op : {"speech_url"}, default_language : supported_languages,
          message_text : Texts, url : Urls, language : LanguageArgs,
          end_session : EndSessions]
    \cup [op : {"rb_speech_set"}, brief : SpeechValues, verbose : Composites,
          end_session : EndSessions]
    \cup [op : {"Response"}, dict : HandWritten]
    \cup [op : {"response"}, default_language : {"ja", "en"},
          message : Messages, reprompt : Reprompts,
          end_session : {Omitted, Given(TRUE)}]

\* A program that makes one builder call; the request handler of the Clova
\* object is as constructed and is left alone.
BuilderInit ==
    /\ handlers = [k \in {intent_key} |-> Dict(EmptyDict)]
    /\ use_debug_mode = FALSE
    /\ application_id = "com.line.myApplication"
    /\ last = NoCall
    /\ call \in Calls
    /\ result = Pending
    /\ held = NoResponse
    /\ decoded = NoRequest
    /\ core_handlers = [k \in {core_intent_key} |-> Dict(EmptyDict)]
    /\ core_last = NoCall

\* The pending call op ends with outcome; a value that is not a Response
\* leaves the held Response alone.
Returns(op, outcome) ==
    /\ call.op = op
    /\ result = Pending
    /\ result' = outcome
    /\ UNCHANGED <<call, held, decoded>>
    /\ UNCHANGED vars

\* The pending call op ends with outcome, a Response when it returns.
Builds(op, outcome) ==
    /\ call.op = op
    /\ result = Pending
    /\ result' = outcome
    /\ held' = IF outcome.status = "returned" THEN outcome.value ELSE held
    /\ UNCHANGED <<call, decoded>>
    /\ UNCHANGED vars

NewSpeechBuilder == Returns("SpeechBuilder", SpeechBuilder(call.default_language))

NewResponseBuilder ==
    Returns("ResponseBuilder", ResponseBuilder(call.default_language))

NewClova == Returns("Clova", Clova(call.default_language))

CallPlainText ==
    Returns("plain_text",
            plain_text(call.default_language, call.message_text, call.language))

CallUrl == Returns("url", Returned(url(call.url)))

CallSpeechSet == Returns("speech_set", speech_set(call.brief, call.verbose))

CallSimpleSpeechText ==
    Builds("simple_speech_text",
           rb_simple_speech_text(call.default_language, call.message_text,
                                 call.language, call.end_session))

CallSimpleSpeech ==
    Builds("simple_speech",
           Returned(rb_simple_speech(call.speech_value, call.end_session)))

CallSpeechList ==
    Builds("speech_list",
           Returned(rb_speech_list(call.speech_values, call.end_session)))

CallSpeechUrl ==
    Builds("speech_url",
           rb_speech_url(call.default_language, call.message_text, call.url,
                         call.language, call.end_session))

CallResponseSpeechSet ==
    Builds("rb_speech_set",
           rb_speech_set(call.brief, call.verbose, call.end_session))

CallResponse ==
    Builds("response",
           clova_response(call.default_language, call.message, call.reprompt,
                          call.end_session))

\* response_builder.add_reprompt(response, speech) on the held Response.
CallAddReprompt ==
    \E speech \in Composites :
        /\ held # NoResponse
        /\ call' = [op |-> "add_reprompt", response |-> held, speech |-> speech]
        /\ held' = add_reprompt(held, speech)
        /\ result' = Returned(held')
        /\ UNCHANGED decoded
        /\ UNCHANGED vars

\* response.reprompt = value on the held Response.
SetReprompt ==
    \E value \in Composites :
        /\ held # NoResponse
        /\ call' = [op |-> "set_reprompt", response |-> held, value |-> value]
        /\ held' = set_reprompt(held, value)
        /\ result' = Returned(NoneObject)
        /\ UNCHANGED decoded
        /\ UNCHANGED vars

\* Response(dict) by the handler itself.
NewResponse == Builds("Response", Returned(Response(call.dict)))

\* response.reprompt read on the held Response.
GetReprompt ==
    /\ held # NoResponse
    /\ call' = [op |-> "get_reprompt", response |-> held]
    /\ held' = after_get_reprompt(held)
    /\ result' = Returned(get_reprompt(held))
    /\ UNCHANGED decoded
    /\ UNCHANGED vars

\* response.session_attributes read on the held Response.
GetSessionAttributes ==
    /\ held # NoResponse
    /\ call' = [op |-> "get_session_attributes", response |-> held]
    /\ held' = after_get_session_attributes(held)
    /\ result' = Returned(get_session_attributes(held))
    /\ UNCHANGED decoded
    /\ UNCHANGED vars

\* response.session_attributes = value on the held Response.
SetSessionAttributes ==
    \E value \in AttributeDicts :
        /\ held # NoResponse
        /\ call' = [op |-> "set_session_attributes", response |-> held,
                    value |-> value]
        /\ held' = set_session_attributes(held, value)
        /\ result' = Returned(NoneObject)
        /\ UNCHANGED decoded
        /\ UNCHANGED vars

BuilderNext ==
    \/ NewSpeechBuilder \/ NewResponseBuilder \/ NewClova \/ NewResponse
    \/ GetReprompt \/ GetSessionAttributes \/ SetSessionAttributes
    \/ CallPlainText \/ CallUrl \/ CallSpeechSet
    \/ CallSimpleSpeechText \/ CallSimpleSpeech \/ CallSpeechList
    \/ CallSpeechUrl \/ CallResponseSpeechSet \/ CallResponse
    \/ CallAddReprompt \/ SetReprompt

BuilderSpec == BuilderInit /\ [][BuilderNext]_all_vars

(***************************************************************************)
(* Properties of the builders                                              *)
(***************************************************************************)

\* The call on record has ended with a return value.
HasReturned(op) == call.op = op /\ result.status = "returned"

\* The call on record has ended with exception e.
HasRaised(op, e) == call.op = op /\ result = Raised(e)

\* The Response r keeps the session open, and its reprompt is speech.
RepromptIs(r, speech) ==
    /\ r.response.shouldEndSession = FALSE
    /\ "reprompt" \in DOMAIN r.response
    /\ r.response.reprompt = [outputSpeech |-> speech]

\* Responses r and before carry the same outputSpeech and sessionAttributes.
SameSpeechAndSession(r, before) ==
    /\ r.response.outputSpeech = before.response.outputSpeech
    /\ ("sessionAttributes" \in DOMAIN r) = ("sessionAttributes" \in DOMAIN before)
    /\ "sessionAttributes" \in DOMAIN r =>
         r.sessionAttributes = before.sessionAttributes

\* C11: after add_reprompt(response, speech), after response.reprompt =
\* speech, and after Clova.response(message, reprompt=r, ...) with any
\* end_session, the response has shouldEndSession = false and reprompt =
\* {outputSpeech: the supplied composite}, whatever shouldEndSession was
\* before; outputSpeech and sessionAttributes are as they were (for
\* Clova.response: as the response built from message alone has them).
C11_RepromptOverridesEndSession ==
    /\ call.op = "add_reprompt" =>
         /\ RepromptIs(held, call.speech)
         /\ SameSpeechAndSession(held, call.response)
         /\ result = Returned(held)
    /\ call.op = "set_reprompt" =>
         /\ RepromptIs(held, call.value)
         /\ SameSpeechAndSession(held, call.response)
    /\ (HasReturned("response") /\ call.reprompt.given) =>
         /\ RepromptIs(result.value,
                       response_speech(call.default_language,
                                       call.reprompt.value).value)
         /\ SameSpeechAndSession(
                result.value,
                response_message(call.default_language, call.message,
                                 call.end_session).value)

\* A response that ended the session was given a reprompt by add_reprompt,
\* and it no longer ends the session.
C11_Witness ==
    /\ call.op = "add_reprompt"
    /\ call.response.response.shouldEndSession = TRUE
    /\ "reprompt" \notin DOMAIN call.response.response
    /\ held.response.shouldEndSession = FALSE
    /\ held.response.reprompt.outputSpeech = call.speech

\* The five response builders of ResponseBuilder.
ResponseBuilders ==
    {"simple_speech_text", "simple_speech", "speech_list", "speech_url",
     "rb_speech_set"}

\* The outputSpeech each builder is documented to produce for call c.
BuilderShape(c) ==
    IF c.op = "simple_speech_text"
    THEN [type |-> "SimpleSpeech",
          values |-> [type |-> "PlainText",
                      lang |-> Arg(c.language, c.default_language),
                      value |-> c.message_text]]
    ELSE IF c.op = "simple_speech"
    THEN [type |-> "SimpleSpeech", values |-> c.speech_value]
    ELSE IF c.op = "speech_list"
    THEN [type |-> "SpeechList", values |-> c.speech_values]
    ELSE IF c.op = "speech_url"
    THEN [type |-> "SpeechList",
          values |-> <<[type |-> "PlainText",
                        lang |-> Arg(c.language, c.default_language),
                        value |-> c.message_text],
                       [type |-> "URL", lang |-> "", value |-> c.url]>>]
    ELSE [type |-> "SpeechSet", brief |-> c.brief, verbose |-> c.verbose]

\* C12: every response a ResponseBuilder builder returns has version "1.0",
\* empty sessionAttributes, card and directives, no reprompt, the
\* builder's outputSpeech, and shouldEndSession equal to the end_session
\* argument, false when it is omitted; so the template's true shows only
\* when end_session=true was passed.
C12_BuilderResponseShape ==
    (call.op \in ResponseBuilders /\ result.status = "returned") =>
        /\ result.value.version = "1.0"
        /\ result.value.sessionAttributes = EmptyDict
        /\ DOMAIN result.value.response =
               {"outputSpeech", "card", "directives", "shouldEndSession"}
        /\ result.value.response.card = EmptyDict
        /\ result.value.response.directives = <<>>
        /\ result.value.response.outputSpeech = BuilderShape(call)
        /\ result.value.response.shouldEndSession =
               (call.end_session = Given(TRUE))
        /\ held = result.value

\* A builder called without end_session returned a response that keeps the
\* session open.
C12_Witness ==
    /\ HasReturned("speech_url")
    /\ call.end_session = Omitted
    /\ result.value.response.shouldEndSession = FALSE
    /\ result.value.response.outputSpeech.type = "SpeechList"

\* The values Clova.response resolves one by one out of m, in the order the
\* code resolves them: the elements of a list; the brief of a MessageSet and
\* then its verbose (or the elements of a verbose list); else m itself.
Leaves(m) ==
    IF m.cls = "list" THEN m.items
    ELSE IF m.cls = "MessageSet"
    THEN <<m.brief>> \o (IF m.verbose.cls = "list" THEN m.verbose.items
                         ELSE <<m.verbose>>)
    ELSE <<m>>

\* The message is resolved before the reprompt.
ResolutionOrder(c) ==
    Leaves(c.message)
    \o (IF c.reprompt.given THEN Leaves(c.reprompt.value) ELSE <<>>)

\* A Message that carries a language outside {en, ja, ko}.
BadLanguage(leaf) ==
    /\ leaf.cls = "Message"
    /\ leaf.language.given
    /\ leaf.language.value \notin {"en", "ja", "ko"}

\* A value that is not a str, Message or URL.
UnsupportedType(leaf) == leaf.cls \notin {"str", "Message", "URL"}

Defective(leaf) == BadLanguage(leaf) \/ UnsupportedType(leaf)

\* The first value in seq that cannot be resolved.
FirstDefect(seq) ==
    seq[CHOOSE i \in 1 .. Len(seq) :
            /\ Defective(seq[i])
            /\ \A j \in 1 .. (i - 1) : ~Defective(seq[j])]

\* The call on record is given an unsupported language: as a builder's
\* default, as the language argument, or on a Message of Clova.response.
GivenBadLanguage ==
    \/ /\ call.op \in {"SpeechBuilder", "ResponseBuilder", "Clova"}
       /\ call.default_language \notin {"en", "ja", "ko"}
    \/ /\ call.op \in {"plain_text", "simple_speech_text", "speech_url"}
       /\ call.language.given
       /\ call.language.value \notin {"en", "ja", "ko"}
    \/ /\ call.op = "response"
       /\ \E leaf \in Range(ResolutionOrder(call)) : BadLanguage(leaf)

\* C13 as stated: every speech-building operation given a language outside
\* {en, ja, ko} fails with ValueError, Clova.response included wherever the
\* Message carrying it stands.
C13_BadLanguageAlwaysValueError ==
    (GivenBadLanguage /\ result # Pending) => result = Raised("ValueError")

\* C13: every speech-building operation given a language outside
\* {en, ja, ko} fails and produces no value; the error is ValueError, except
\* that Clova.response raises TypeError instead when a value of unsupported
\* type is resolved before the Message that carries the language.
C13_BadLanguageFails ==
    (GivenBadLanguage /\ result # Pending) =>
        /\ result.status = "raised"
        /\ held = NoResponse
        /\ result.error =
               IF /\ call.op = "response"
                  /\ UnsupportedType(FirstDefect(ResolutionOrder(call)))
               THEN "TypeError"
               ELSE "ValueError"

\* Clova.response was given a sound message and, as reprompt, a Message in
\* an unsupported language, and raised ValueError without a response.
C13_Witness ==
    /\ HasRaised("response", "ValueError")
    /\ ~\E leaf \in Range(Leaves(call.message)) : Defective(leaf)
    /\ call.reprompt.given
    /\ BadLanguage(call.reprompt.value)
    /\ held = NoResponse

\* The speech values a composite holds, in order: the one value of a
\* SimpleSpeech, the values of a SpeechList.
ValuesOf(composite) ==
    IF composite.type = "SimpleSpeech" THEN <<composite.values>>
    ELSE composite.values

\* The same for a composite that may be a SpeechSet: its brief, then the
\* values of its verbose.
SpeechValuesOf(composite) ==
    IF composite.type = "SpeechSet"
    THEN <<composite.brief>> \o ValuesOf(composite.verbose)
    ELSE ValuesOf(composite)

\* Every speech value of a response returned by Clova.response: those of
\* its outputSpeech, then those of its reprompt.
ResponseSpeechValues(r) ==
    SpeechValuesOf(r.response.outputSpeech)
    \o (IF "reprompt" \in DOMAIN r.response
        THEN SpeechValuesOf(r.response.reprompt.outputSpeech)
        ELSE <<>>)

\* The language a speech value built from leaf must carry under a builder
\* whose default language is default_language.
ExpectedLanguage(leaf, default_language) ==
    IF leaf.cls = "URL" THEN ""
    ELSE IF leaf.cls = "Message" /\ leaf.language.given THEN leaf.language.value
    ELSE default_language

\* Speech value v is well-formed: a PlainText in a supported language or a
\* URL without language.
LanguageSound(v) ==
    \/ v.type = "PlainText" /\ v.lang \in {"en", "ja", "ko"}
    \/ v.type = "URL" /\ v.lang = ""

\* C14: every speech value the builders produce is a PlainText carrying a
\* language in {en, ja, ko}, the explicitly given one when one is given and
\* the builder's default language otherwise, or a URL carrying the empty
\* language whatever the default language is.
C14_SpeechValueLanguage ==
    /\ HasReturned("plain_text") =>
         /\ result.value.type = "PlainText"
         /\ result.value.lang = Arg(call.language, call.default_language)
         /\ LanguageSound(result.value)
    /\ HasReturned("url") =>
         /\ result.value.type = "URL"
         /\ LanguageSound(result.value)
    /\ (HasReturned("simple_speech_text") \/ HasReturned("speech_url")) =>
         LET values == ValuesOf(result.value.response.outputSpeech)
         IN /\ values[1].type = "PlainText"
            /\ values[1].lang = Arg(call.language, call.default_language)
            /\ \A i \in 1 .. Len(values) : LanguageSound(values[i])
    /\ HasReturned("response") =>
         LET values == ResponseSpeechValues(result.value)
             leaves == ResolutionOrder(call)
         IN /\ Len(values) = Len(leaves)
            /\ \A i \in 1 .. Len(values) :
                 /\ LanguageSound(values[i])
                 /\ (values[i].type = "URL") = (leaves[i].cls = "URL")
                 /\ values[i].lang =
                        ExpectedLanguage(leaves[i], call.default_language)

\* Under the default language ja, Clova.response returned a list holding a
\* PlainText in the explicitly given en and a URL without language.
C14_Witness ==
    /\ HasReturned("response")
    /\ call.default_language = "ja"
    /\ call.message =
           List(<<Message("Hi", Given("en")), URL("https://dummy.mp3")>>)
    /\ result.value.response.outputSpeech.values[1].lang = "en"
    /\ result.value.response.outputSpeech.values[2].lang = ""

\* The speech value a single str, Message or URL resolves to.
Resolved(leaf, default_language) ==
    IF leaf.cls = "URL"
    THEN [type |-> "URL", lang |-> "", value |-> leaf.value]
    ELSE [type |-> "PlainText",
          lang |-> ExpectedLanguage(leaf, default_language),
          value |-> IF leaf.cls = "Message" THEN leaf.text ELSE leaf.value]

\* Composite speech is the normalisation of m, a single value or a list.
NormalisedAs(speech, m, default_language) ==
    /\ m.cls \in {"str", "Message", "URL"} =>
         speech = [type |-> "SimpleSpeech",
                   values |-> Resolved(m, default_language)]
    /\ m.cls = "list" =>
         /\ speech.type = "SpeechList"
         /\ Len(speech.values) = Len(m.items)
         /\ \A i \in 1 .. Len(m.items) :
                speech.values[i] = Resolved(m.items[i], default_language)

\* C15: in a response returned by Clova.response, a single str, Message or
\* URL (as message or as reprompt) has become a SimpleSpeech of that one
\* resolved value, and a list has become a SpeechList of the same length
\* whose i-th value is the resolution of the i-th element.
C15_MessageNormalisation ==
    HasReturned("response") =>
        /\ NormalisedAs(result.value.response.outputSpeech, call.message,
                        call.default_language)
        /\ call.reprompt.given =>
             NormalisedAs(result.value.response.reprompt.outputSpeech,
                          call.reprompt.value, call.default_language)

\* Clova.response returned a two-element SpeechList for a list of a URL and
\* a str, and a two-element SpeechList for the reprompt list.
C15_Witness ==
    /\ HasReturned("response")
    /\ call.message = List(<<URL("https://dummy.mp3"), Str("Hi")>>)
    /\ call.reprompt = Given(List(<<Str("Hi"), URL("https://dummy.mp3")>>))
    /\ result.value.response.outputSpeech.values[1].type = "URL"
    /\ result.value.response.reprompt.outputSpeech.values[2].type = "URL"

\* Composite speech is the SpeechSet of MessageSet m: the resolved brief, and
\* the verbose normalised as a single value or a list.
SpeechSetOf(speech, m, default_language) ==
    /\ speech.type = "SpeechSet"
    /\ speech.brief = Resolved(m.brief, default_language)
    /\ speech.verbose.type =
           (IF m.verbose.cls = "list" THEN "SpeechList" ELSE "SimpleSpeech")
    /\ NormalisedAs(speech.verbose, m.verbose, default_language)

\* m is a MessageSet whose verbose is again a MessageSet.
NestedSet(m) == m.cls = "MessageSet" /\ m.verbose.cls = "MessageSet"

\* The call on record is Clova.response with a nested MessageSet, as
\* message or as reprompt.
GivenNestedSet ==
    /\ call.op = "response"
    /\ \/ NestedSet(call.message)
       \/ call.reprompt.given /\ NestedSet(call.reprompt.value)

\* A response returned by Clova.response carries a SpeechSet for every
\* MessageSet it was given.
SetsBecomeSpeechSets ==
    HasReturned("response") =>
        /\ call.message.cls = "MessageSet" =>
             SpeechSetOf(result.value.response.outputSpeech, call.message,
                         call.default_language)
        /\ (call.reprompt.given /\ call.reprompt.value.cls = "MessageSet") =>
             SpeechSetOf(result.value.response.reprompt.outputSpeech,
                         call.reprompt.value, call.default_language)

\* C16 as stated: a MessageSet yields a SpeechSet of the resolved brief and
\* of a SimpleSpeech or SpeechList verbose, and a MessageSet nested in the
\* verbose of another always fails with TypeError.
C16_NestedSetAlwaysTypeError ==
    /\ SetsBecomeSpeechSets
    /\ (GivenNestedSet /\ result # Pending) => result = Raised("TypeError")

\* C16: a MessageSet given to Clova.response (as message or reprompt) yields
\* a SpeechSet whose brief is the resolved brief and whose verbose is a
\* SimpleSpeech for a single value and a SpeechList for a list; a MessageSet
\* nested in the verbose of another fails and produces no response, with
\* TypeError unless a Message in an unsupported language is resolved before
\* the nested set, which raises ValueError first.
C16_SetShapeAndNesting ==
    /\ SetsBecomeSpeechSets
    /\ (GivenNestedSet /\ result # Pending) =>
         /\ result.status = "raised"
         /\ held = NoResponse
         /\ result.error =
                IF BadLanguage(FirstDefect(ResolutionOrder(call)))
                THEN "ValueError"
                ELSE "TypeError"

\* Clova.response was given a MessageSet whose verbose is a MessageSet, and
\* raised TypeError without a response.
C16_Witness ==
    /\ HasRaised("response", "TypeError")
    /\ call.message = MessageSet(Str("Hi"), MessageSet(Str("Hi"), Str("Hi")))
    /\ ~call.reprompt.given
    /\ held = NoResponse

\* C17: SpeechBuilder.speech_set and ResponseBuilder.speech_set fail with
\* TypeError when the verbose argument is itself a SpeechSet, so nothing
\* they produce has a SpeechSet as the verbose of a SpeechSet.
C17_SpeechSetRejectsNestedSet ==
    /\ (/\ call.op \in {"speech_set", "rb_speech_set"}
        /\ call.verbose.type = "SpeechSet"
        /\ result # Pending) => result = Raised("TypeError")
    /\ HasReturned("speech_set") =>
         result.value.verbose.type # "SpeechSet"
    /\ HasReturned("rb_speech_set") =>
         result.value.response.outputSpeech.verbose.type # "SpeechSet"

\* The call on record is Clova.response, and one of the values it resolves
\* (the message or reprompt, a list element, a brief or a verbose) is not a
\* str, Message or URL.
GivenUnsupportedType ==
    /\ call.op = "response"
    /\ \E leaf \in Range(ResolutionOrder(call)) : UnsupportedType(leaf)

\* The values of m other than a single verbose: m itself when it is neither
\* list nor MessageSet, the elements of a list, the brief of a MessageSet.
BriefAndElements(m) ==
    IF m.cls = "list" THEN m.items
    ELSE IF m.cls = "MessageSet"
    THEN <<m.brief>> \o (IF m.verbose.cls = "list" THEN m.verbose.items
                         ELSE <<>>)
    ELSE <<m>>

\* C18 as stated: Clova.response fails with TypeError whenever the message
\* or reprompt, a list element or a brief is not a str, Message or URL.
C18_UnsupportedAlwaysTypeError ==
    (/\ call.op = "response"
     /\ result # Pending
     /\ \E leaf \in Range(BriefAndElements(call.message)
                          \o (IF call.reprompt.given
                              THEN BriefAndElements(call.reprompt.value)
                              ELSE <<>>)) : UnsupportedType(leaf))
        => result = Raised("TypeError")

\* C18: Clova.response fails and returns no response whenever the message,
\* a reprompt other than None, a list element or the brief of a MessageSet is
\* not a str, Message or URL; the error is TypeError unless a Message in an
\* unsupported language is resolved before that value, which raises
\* ValueError first.  A reprompt of None is no reprompt and no error.
C18_UnsupportedInputFails ==
    /\ (GivenUnsupportedType /\ result # Pending) =>
         /\ result.status = "raised"
         /\ held = NoResponse
         /\ result.error =
                IF UnsupportedType(FirstDefect(ResolutionOrder(call)))
                THEN "TypeError"
                ELSE "ValueError"
    /\ (/\ call.op = "response"
        /\ result # Pending
        /\ ~call.reprompt.given
        /\ \A leaf \in Range(Leaves(call.message)) : ~Defective(leaf)) =>
         /\ result.status = "returned"
         /\ "reprompt" \notin DOMAIN result.value.response

\* Clova.response was given a list that holds a list behind a str, and
\* raised TypeError without a response.
C18_Witness ==
    /\ HasRaised("response", "TypeError")
    /\ call.message = List(<<Str("Hi"), List(<<Str("Hi")>>)>>)
    /\ held = NoResponse

(***************************************************************************)
(* IntentRequest.slots and IntentRequest.slot_value                        *)
(***************************************************************************)

SlotNames == {"AirCon", "Light", "degree"}

SlotValues == {Str("Air Conditioner"), Str("27")}

\* A slot name no request of the model carries.
QueryNames == SlotNames \cup {"when"}

\* The JSON object of one slot.
Slot(slot_name, value) == [name |-> slot_name, value |-> value]

\* The slots objects an intent may carry: any slots under any of the names.
SlotDicts ==
    UNION {{[n \in names |-> Slot(n, values[n])] :
                values \in [names -> SlotValues]} :
           names \in SUBSET SlotNames}

\* The intent of a request: without a slots field, with slots null, or with
\* a slots object (the empty one included).
Intents ==
    {[name |-> "TurnOn"]}
    \cup {[name |-> "TurnOn", slots |-> NoneObject]}
    \cup {[name |-> "TurnOn", slots |-> d] : d \in SlotDicts}

\* The request dict an IntentRequest wraps.
IntentRequest(intent_dict) ==
    [type |-> "IntentRequest", intent |-> intent_dict]

\* IntentRequest.slots (slots_dict in core.py)
slots(request) ==
    IF "slots" \notin DOMAIN request.intent THEN Raised("KeyError")
    ELSE LET s == request.intent.slots
         IN IF s = NoneObject THEN Raised("TypeError")
            ELSE Returned([slot_name \in DOMAIN s |-> s[slot_name].value])

\* IntentRequest.slot_value(slot_name)
slot_value(request, slot_name) ==
    IF "slots" \notin DOMAIN request.intent THEN Raised("KeyError")
    ELSE LET s == request.intent.slots
         IN IF s # NoneObject /\ slot_name \in DOMAIN s
            THEN Returned(s[slot_name].value)
            ELSE Returned(NoneObject)

SlotCalls ==
    [op : {"slots"}, intent : Intents]
    \cup [op : {"slot_value"}, intent : Intents, slot_name : QueryNames]

\* A handler that is given an IntentRequest and reads its slots once.
SlotsInit ==
    /\ handlers = [k \in {intent_key} |-> Dict(EmptyDict)]
    /\ use_debug_mode = FALSE
    /\ application_id = "com.line.myApplication"
    /\ last = NoCall
    /\ call \in SlotCalls
    /\ result = Pending
    /\ held = NoResponse
    /\ decoded = NoRequest
    /\ core_handlers = [k \in {core_intent_key} |-> Dict(EmptyDict)]
    /\ core_last = NoCall

\* request.slots
ReadSlots == Returns("slots", slots(IntentRequest(call.intent)))

\* request.slot_value(slot_name)
ReadSlotValue ==
    Returns("slot_value",
            slot_value(IntentRequest(call.intent), call.slot_name))

SlotsNext == ReadSlots \/ ReadSlotValue

SlotsSpec == SlotsInit /\ [][SlotsNext]_all_vars

\* The intent carries slots: its slots field is there, not null, not empty.
CarriesSlots(i) ==
    /\ "slots" \in DOMAIN i
    /\ i.slots # NoneObject
    /\ DOMAIN i.slots # {}

\* A slot called slot_name is present in intent i.
SlotPresent(i, slot_name) == CarriesSlots(i) /\ slot_name \in DOMAIN i.slots

\* mapping.get(slot_name): the value under slot_name, None when there is none.
Lookup(mapping, slot_name) ==
    IF slot_name \in DOMAIN mapping THEN mapping[slot_name] ELSE NoneObject

\* C19: IntentRequest.slots is the mapping from each slot name present in
\* the intent to that slot's value, and the empty mapping when the intent
\* carries no slots (an empty, null or missing slots field).
C19_SlotsMapping ==
    (call.op = "slots" /\ result # Pending) =>
        /\ result.status = "returned"
        /\ result.value =
               IF CarriesSlots(call.intent)
               THEN [n \in DOMAIN call.intent.slots |->
                         call.intent.slots[n].value]
               ELSE EmptyDict

\* C20: slot_value(name) returns the slot's value when a slot called name
\* is present, returns None without raising when it is absent or the slots
\* are null, and agrees with looking name up in the slots mapping.
C20_SlotValueAgreesWithSlots ==
    (call.op = "slot_value" /\ result # Pending) =>
        /\ result.status = "returned"
        /\ result.value =
               IF SlotPresent(call.intent, call.slot_name)
               THEN call.intent.slots[call.slot_name].value
               ELSE NoneObject
        /\ slots(IntentRequest(call.intent)).status = "returned"
        /\ result.value =
               Lookup(slots(IntentRequest(call.intent)).value, call.slot_name)

(***************************************************************************)
(* The request model read by a handler (Request, Session, Context,         *)
(* AudioPlayer, Event)                                                     *)
(***************************************************************************)

\* The restriction of dict d to the keys in ks.
Restrict(d, ks) == [k \in ks |-> d[k]]

\* The AudioPlayer object of the tests' event request, and its sub-fields.
FullAudioPlayer ==
    [offsetInMilliseconds |-> 12734,
     totalInMilliseconds |-> 52734,
     playerActivity |-> "STOPPED",
     stream |-> [StreamInfo |-> "WIP"]]

\* Every AudioPlayer object that carries some of the sub-fields.
AudioPlayerDicts ==
    {Restrict(FullAudioPlayer, ks) : ks \in SUBSET DOMAIN FullAudioPlayer}

SystemDict ==
    [application |-> [applicationId |-> "com.line.myApplication"],
     user |-> [userId |-> "U1", accessToken |-> "token"],
     device |-> [deviceId |-> "D1"]]

\* The context of a request, with or without an AudioPlayer key.
ContextDicts ==
    {[System |-> SystemDict]}
    \cup {[System |-> SystemDict, AudioPlayer |-> ap] : ap \in AudioPlayerDicts}

SessionBase ==
    [new |-> TRUE, sessionId |-> "S1",
     user |-> [userId |-> "U1", accessToken |-> "token"]]

\* The session of a request: without sessionAttributes, with empty ones, and
\* with the attributes of an earlier response.
SessionDicts ==
    {SessionBase,
     DictSet(SessionBase, "sessionAttributes", EmptyDict),
     DictSet(SessionBase, "sessionAttributes", [state |-> Str("on")])}

\* The request member of the body, one per request class read here.
RequestMembers ==
    {[type |-> "LaunchRequest"],
     [type |-> "IntentRequest",
      intent |-> [name |-> "TurnOn",
                  slots |-> [AirCon |-> Slot("AirCon", Str("Air Conditioner"))]]],
     [type |-> "EventRequest", requestId |-> "R1",
      timestamp |-> "2017-09-05T05:41:21Z",
      event |-> [namespace |-> "AudioPlayer", name |-> "PlayStopped",
                 payload |-> EmptyDict]]}

\* The decoded JSON bodies a Request is constructed from.
RequestDicts ==
    {[version |-> "1.0", session |-> s, context |-> c, request |-> r] :
        s \in SessionDicts, c \in ContextDicts, r \in RequestMembers}

\* Session.id, Session.is_new, Session.user.id
session_id(request_dict) == Returned(request_dict.session.sessionId)

session_is_new(request_dict) == Returned(request_dict.session.new)

session_user_id(request_dict) == Returned(request_dict.session.user.userId)

\* Session.attributes: self._session.setdefault('sessionAttributes', {}).
\* The value returned, and the session dict afterwards.
session_attributes(request_dict) ==
    Returned(Get(request_dict.session, "sessionAttributes", EmptyDict))

session_after_attributes(request_dict) ==
    [request_dict EXCEPT
        !.session = SetDefault(@, "sessionAttributes", EmptyDict)]

\* Request.type (read from the decoded dict), Request.application_id
request_type(request_dict) == Returned(request_dict.request.type)

context_application_id(request_dict) ==
    Returned(request_dict.context.System.application.applicationId)

\* Context.device.id, Context.user.id
context_device_id(request_dict) ==
    Returned(request_dict.context.System.device.deviceId)

context_user_id(request_dict) ==
    Returned(request_dict.context.System.user.userId)

\* The AudioPlayer object wrapping audio_player_dict.
AudioPlayer(audio_player_dict) ==
    [cls |-> "AudioPlayer", audio_player |-> audio_player_dict]

\* Context.audio_player built for a missing key as for an empty object.
audio_player_zero_filled(request_dict) ==
    AudioPlayer(Get(request_dict.context, "AudioPlayer", EmptyDict))

\* Context.__init__ / Context.audio_player
audio_player(request_dict) ==
    IF "AudioPlayer" \in DOMAIN request_dict.context
    THEN AudioPlayer(request_dict.context.AudioPlayer)
    ELSE NoneObject

\* AudioPlayer.offset, .total, .activity, .stream
offset(player) == Returned(Get(player.audio_player, "offsetInMilliseconds", 0))

total(player) == Returned(Get(player.audio_player, "totalInMilliseconds", 0))

activity(player) ==
    IF "playerActivity" \in DOMAIN player.audio_player
    THEN Returned(player.audio_player.playerActivity)
    ELSE Raised("KeyError")

stream(player) == Returned(Get(player.audio_player, "stream", NoneObject))

\* IntentRequest.name; EventRequest.id, .timestamp; Event.name, .namespace,
\* .payload
intent_name(request_dict) == Returned(request_dict.request.intent.name)

event_request_id(request_dict) == Returned(request_dict.request.requestId)

event_timestamp(request_dict) == Returned(request_dict.request.timestamp)

event_name(request_dict) == Returned(request_dict.request.event.name)

event_namespace(request_dict) == Returned(request_dict.request.event.namespace)

event_payload(request_dict) == Returned(request_dict.request.event.payload)

\* A handler is given the Request built from one decoded body.
RequestInit ==
    /\ handlers = [k \in {intent_key} |-> Dict(EmptyDict)]
    /\ use_debug_mode = FALSE
    /\ application_id = "com.line.myApplication"
    /\ last = NoCall
    /\ call = NoOperation
    /\ result = Pending
    /\ held = NoResponse
    /\ decoded \in RequestDicts
    /\ core_handlers = [k \in {core_intent_key} |-> Dict(EmptyDict)]
    /\ core_last = NoCall

\* The handler reads accessor op, which ends with outcome and leaves the
\* decoded dict alone.
Reads(op, outcome) ==
    /\ call' = [op |-> op]
    /\ result' = outcome
    /\ UNCHANGED <<held, decoded>>
    /\ UNCHANGED vars

ReadType == Reads("type", request_type(decoded))

ReadApplicationId == Reads("application_id", context_application_id(decoded))

ReadSessionId == Reads("session.id", session_id(decoded))

ReadSessionIsNew == Reads("session.is_new", session_is_new(decoded))

ReadSessionUser == Reads("session.user.id", session_user_id(decoded))

\* request.session.attributes: the one accessor that writes.
ReadSessionAttributes ==
    /\ call' = [op |-> "session.attributes"]
    /\ result' = session_attributes(decoded)
    /\ decoded' = session_after_attributes(decoded)
    /\ UNCHANGED held
    /\ UNCHANGED vars

ReadContextDevice == Reads("context.device.id", context_device_id(decoded))

ReadContextUser == Reads("context.user.id", context_user_id(decoded))

ReadAudioPlayer ==
    Reads("context.audio_player", Returned(audio_player(decoded)))

\* The accessors of context.audio_player, for a request that has one.
ReadOffset ==
    /\ audio_player(decoded) # NoneObject
    /\ Reads("audio_player.offset", offset(audio_player(decoded)))

ReadTotal ==
    /\ audio_player(decoded) # NoneObject
    /\ Reads("audio_player.total", total(audio_player(decoded)))

ReadActivity ==
    /\ audio_player(decoded) # NoneObject
    /\ Reads("audio_player.activity", activity(audio_player(decoded)))

ReadStream ==
    /\ audio_player(decoded) # NoneObject
    /\ Reads("audio_player.stream", stream(audio_player(decoded)))

\* The accessors of an IntentRequest.
ReadName ==
    /\ decoded.request.type = "IntentRequest"
    /\ Reads("name", intent_name(decoded))

ReadRequestSlots ==
    /\ decoded.request.type = "IntentRequest"
    /\ Reads("slots", slots(decoded.request))

ReadRequestSlotValue ==
    /\ decoded.request.type = "IntentRequest"
    /\ \E slot_name \in {"AirCon", "when"} :
         /\ call' = [op |-> "slot_value", slot_name |-> slot_name]
         /\ result' = slot_value(decoded.request, slot_name)
         /\ UNCHANGED <<held, decoded>>
         /\ UNCHANGED vars

\* The accessors of an EventRequest.
ReadEvent ==
    /\ decoded.request.type = "EventRequest"
    /\ \/ Reads("id", event_request_id(decoded))
       \/ Reads("timestamp", event_timestamp(decoded))
       \/ Reads("event.name", event_name(decoded))
       \/ Reads("event.namespace", event_namespace(decoded))
       \/ Reads("event.payload", event_payload(decoded))

RequestNext ==
    \/ ReadType \/ ReadApplicationId
    \/ ReadSessionId \/ ReadSessionIsNew \/ ReadSessionUser
    \/ ReadSessionAttributes
    \/ ReadContextDevice \/ ReadContextUser \/ ReadAudioPlayer
    \/ ReadOffset \/ ReadTotal \/ ReadActivity \/ ReadStream
    \/ ReadName \/ ReadRequestSlots \/ ReadRequestSlotValue
    \/ ReadEvent

RequestSpec == RequestInit /\ [][RequestNext]_all_vars

\* The raw context of the decoded request has an AudioPlayer key.
HasAudioPlayerKey == "AudioPlayer" \in DOMAIN decoded.context

\* C21: context.audio_player is None exactly when the raw context has no
\* AudioPlayer key; when the key is there, offset and total return the
\* supplied values and 0 when their sub-field is missing, activity returns
\* the supplied playerActivity, and stream the supplied stream or None.
C21_AudioPlayerAccessors ==
    /\ call.op = "context.audio_player" =>
         /\ result.status = "returned"
         /\ (result.value = NoneObject) <=> ~HasAudioPlayerKey
         /\ HasAudioPlayerKey =>
              result.value.audio_player = decoded.context.AudioPlayer
    /\ call.op = "audio_player.offset" =>
         /\ HasAudioPlayerKey
         /\ result =
              Returned(IF "offsetInMilliseconds" \in DOMAIN decoded.context.AudioPlayer
                       THEN decoded.context.AudioPlayer.offsetInMilliseconds
                       ELSE 0)
    /\ call.op = "audio_player.total" =>
         /\ HasAudioPlayerKey
         /\ result =
              Returned(IF "totalInMilliseconds" \in DOMAIN decoded.context.AudioPlayer
                       THEN decoded.context.AudioPlayer.totalInMilliseconds
                       ELSE 0)
    /\ (/\ call.op = "audio_player.activity"
        /\ "playerActivity" \in DOMAIN decoded.context.AudioPlayer) =>
         result = Returned(decoded.context.AudioPlayer.playerActivity)
    /\ call.op = "audio_player.stream" =>
         result =
              Returned(IF "stream" \in DOMAIN decoded.context.AudioPlayer
                       THEN decoded.context.AudioPlayer.stream
                       ELSE NoneObject)

\* The handler read offset from an AudioPlayer that has a playerActivity but
\* no offsetInMilliseconds, and got 0.
C21_Witness ==
    /\ call.op = "audio_player.offset"
    /\ HasAudioPlayerKey
    /\ DOMAIN decoded.context.AudioPlayer = {"playerActivity"}
    /\ result = Returned(0)

\* C27: the Request is read-only while a handler runs: no accessor of the
\* request model changes the decoded request object, and session.attributes
\* read on a session without sessionAttributes yields an empty mapping.
C27_RequestReadOnly ==
    [][/\ decoded' = decoded
       /\ (/\ call'.op = "session.attributes"
           /\ "sessionAttributes" \notin DOMAIN decoded.session) =>
            result' = Returned(EmptyDict)]_all_vars

(***************************************************************************)
(* The spelling of the signature header                                    *)
(***************************************************************************)

\* Spellings of the signature header key.
HeaderKeys == {"SignatureCEK", "Signaturecek", "signaturecek", "SIGNATURECEK"}

\* A header dict that carries sig under key, next to another header.
FullHeader(key, sig) ==
    [k \in {key, "Content-Type"} |->
        IF k = key THEN b64encode(sig) ELSE b64encode(<<"application/json">>)]

\* The handler tables of three skills: no handler at all, a default handler,
\* and a default handler next to a launch and an intent handler.
HeaderTables ==
    {[k \in {intent_key} |-> Dict(EmptyDict)],
     DictSet([k \in {intent_key} |-> Dict(EmptyDict)],
             default_key, Func("returns_response")),
     [k \in {intent_key, default_key, launch_key} |->
        IF k = intent_key
        THEN Dict([n \in {"TurnOn"} |-> Func("returns_response")])
        ELSE IF k = default_key THEN Func("returns_none")
        ELSE Func("returns_response")]}

\* A skill whose handlers are registered before the first request arrives.
HeaderInit ==
    /\ handlers \in HeaderTables
    /\ use_debug_mode \in BOOLEAN
    /\ application_id = "com.line.myApplication"
    /\ last = NoCall
    /\ call = NoOperation
    /\ result = Pending
    /\ held = NoResponse
    /\ decoded = NoRequest
    /\ core_handlers = [k \in {core_intent_key} |-> Dict(EmptyDict)]
    /\ core_last = NoCall

\* One call route_request(request_body, request_header_dict) whose header
\* dict spells the signature key in any of the ways above.
route_request_spelled ==
    \E request_body \in Bodies :
      \E sig \in SignaturesFor(request_body), key \in HeaderKeys :
        LET request_header_dict == FullHeader(key, sig)
            replay == /\ last.body = request_body
                      /\ last.headers = request_header_dict
        IN /\ last' =
                [body |-> request_body,
                 headers |-> request_header_dict,
                 outcome |-> route_outcome(handlers, use_debug_mode, application_id,
                                           request_body, request_header_dict),
                 replay |-> replay,
                 first_verdict |->
                     IF replay THEN Verdict(last.outcome) ELSE "no call"]
           /\ UNCHANGED <<handlers, use_debug_mode, application_id>>
           /\ UNCHANGED builder_vars
           /\ UNCHANGED core_vars

HeaderNext == route_request_spelled

HeaderSpec == HeaderInit /\ [][HeaderNext]_all_vars

\* The signature the headers of the call in l carry, as sent (base64 text).
SentSignature(l) ==
    l.headers[CHOOSE k \in DOMAIN l.headers : k \in HeaderKeys]

\* C22: the signature header is found whatever the letter case of its key:
\* for the body and signature of a call, verification and route_request end
\* the same way under every spelling of SignatureCEK; and the header value is
\* base64-decoded before it is verified, so the call passes verification
\* exactly when the decoded value is the signature of the body.
C22_HeaderKeyCaseInsensitive ==
    Called(last) =>
        /\ \A key \in HeaderKeys :
             LET respelled == FullHeader(key, b64decode(SentSignature(last)))
             IN /\ verify_request(last.body, respelled)
                     = verify_request(last.body, last.headers)
                /\ route_outcome(handlers, use_debug_mode, application_id,
                                 last.body, respelled) = last.outcome
        /\ verify_request(last.body, last.headers) =
               IF b64decode(SentSignature(last)) = Sign(last.body)
               THEN "none"
               ELSE "InvalidSignature"

\* A request signed under the key SIGNATURECEK passed verification and was
\* handed to a handler.
C22_Witness ==
    /\ Called(last)
    /\ ~use_debug_mode
    /\ "SIGNATURECEK" \in DOMAIN last.headers
    /\ Verdict(last.outcome) = "accepted"
    /\ Len(last.outcome.calls) = 1

\* C23: Response.session_attributes reads and writes the top-level
\* sessionAttributes field, never a field under response: after
\* response.session_attributes = v the getter and the field both give v and
\* the response sub-object is as before; the getter gives an empty mapping
\* when the field is absent, and what the field holds when it is there.
C23_SessionAttributesTopLevel ==
    /\ call.op = "set_session_attributes" =>
         /\ held.sessionAttributes = call.value
         /\ get_session_attributes(held) = call.value
         /\ after_get_session_attributes(held) = held
         /\ held.response = call.response.response
    /\ call.op = "get_session_attributes" =>
         /\ result.status = "returned"
         /\ result.value =
                IF "sessionAttributes" \in DOMAIN call.response
                THEN call.response.sessionAttributes
                ELSE EmptyDict
         /\ held.sessionAttributes = result.value
         /\ held.response = call.response.response

\* The attributes were assigned on a response that carries a reprompt, and
\* the response sub-object kept its reprompt.
C23_Witness ==
    /\ call.op = "set_session_attributes"
    /\ call.value = [LastTurnedOn |-> Str("Something")]
    /\ held.sessionAttributes = [LastTurnedOn |-> Str("Something")]
    /\ "reprompt" \in DOMAIN held.response
    /\ "sessionAttributes" \notin DOMAIN held.response

\* C26: in every state of a response reachable from a builder result by
\* add_reprompt, reading or assigning response.reprompt, and reading or
\* assigning response.session_attributes, a reprompt field in the response
\* sub-object comes with shouldEndSession = false.
C26_RepromptImpliesSessionOpen ==
    (held # NoResponse /\ "reprompt" \in DOMAIN held.response) =>
        held.response.shouldEndSession = FALSE

(***************************************************************************)
(* C24 -- Order of errors.  Whenever route_request runs, the error it      *)
(* reports is that of the first failing step in the order signature        *)
(* verification (when enabled), JSON decode, request-type classification,  *)
(* application-id check (when enabled), handler selection: whatever the    *)
(* table holds (a default handler or none), a badly signed call fails with *)
(* the verification error, a body that is not JSON with the decode error,  *)
(* an unrecognized type with the unsupported-type error (also when the     *)
(* application id is wrong as well), a wrong application id with           *)
(* ApplicationIdMismatch, and only a call that passes all of these may end *)
(* with the missing-handler error or with a handler invocation.            *)
(***************************************************************************)
\* The error of the first step before handler selection that fails for the
\* call in l, or "none" when the call reaches handler selection.
FirstFailureBeforeSelection(l) ==
    IF ~use_debug_mode /\ ~WellSigned(l)
    THEN IF \A k \in DOMAIN l.headers : lower(k) # "signaturecek"
         THEN "KeyError_signaturecek"
         ELSE "InvalidSignature"
    ELSE IF ~IsJson(l) THEN "JSONDecodeError"
    ELSE IF BodyType(l) \notin SupportedTypes THEN "ValueError"
    ELSE IF ~use_debug_mode /\ BodyApplicationId(l) # application_id
    THEN "ApplicationIdMismatch"
    ELSE "none"

C24_FirstFailingStepReported ==
    [][ RouteStep =>
          IF FirstFailureBeforeSelection(last') # "none"
          THEN last'.outcome.error = FirstFailureBeforeSelection(last')
          ELSE last'.outcome.error \in {"none", "KeyError_default"} ]_vars

(***************************************************************************)
(* C25 -- Single pass.  Every route_request call runs its steps once and   *)
(* in order (verification when enabled, decode, default lookup,            *)
(* classification, application-id check when enabled, selection,           *)
(* invocation) and stops at the first step that fails: at most one         *)
(* handler is invoked and at most once; a handler is invoked only when     *)
(* the call is genuinely signed and addressed to this application (unless  *)
(* debug mode is on) and its body is a request of a supported type; and a  *)
(* call that ends with an error has invoked no handler.                    *)
(***************************************************************************)
\* The steps of a complete pass, in order.
FullPass ==
    IF use_debug_mode
    THEN <<"decode", "default_lookup", "create", "select", "invoke">>
    ELSE <<"verify", "decode", "default_lookup", "create",
           "verify_application_id", "select", "invoke">>

IsPrefix(s, t) == Len(s) <= Len(t) /\ s = SubSeq(t, 1, Len(s))

store(hs, key, func) == DictSet(hs, key, Func(func))

\* The intent decorator replacing the nested dict by one that holds the new
\* name alone.
intent_store_fresh_dict(hs, n, func) ==
    DictSet(hs, intent_key, Dict(DictSet(EmptyDict, n, Func(func))))

\* The intent decorator writing the name at the top level of the table.
intent_store_top_level(hs, n, func) == DictSet(hs, n, Func(func))

\* self._handlers[Request.intent_key][intent] = func
intent_store(hs, n, func) ==
    DictSet(hs, intent_key, Dict(DictSet(intent_handlers(hs), n, Func(func))))

\* The headers sent with body b when the table is under study: the mocked
\* header and the genuine signature.
TableHeadersFor(b) == {mocked_header, SignatureHeader("SignatureCEK", Sign(b))}

\* One of default / launch / event / end applied to func: the assignment
\* and `return func`.
Decorates(op, key, func) ==
    /\ Room(key)
    /\ handlers' = store(handlers, key, func)
    /\ call' = [op |-> op, func |-> func]
    /\ result' = Returned(func)
    /\ UNCHANGED <<use_debug_mode, application_id, last, held, decoded>>
    /\ UNCHANGED core_vars

default_decorator == \E func \in HandlerFns : Decorates("default", default_key, func)

launch_decorator == \E func \in HandlerFns : Decorates("launch", launch_key, func)

event_decorator == \E func \in HandlerFns : Decorates("event", event_key, func)

end_decorator == \E func \in HandlerFns : Decorates("end", session_ended_key, func)

\* intent(n)(func): _handler stores func and returns it.
intent_decorator ==
    \E n \in IntentNames, func \in HandlerFns :
        /\ RoomIntent(n)
        /\ handlers' = intent_store(handlers, n, func)
        /\ call' = [op |-> "intent", intent_name |-> n, func |-> func]
        /\ result' = Returned(func)
        /\ UNCHANGED <<use_debug_mode, application_id, last, held, decoded>>
        /\ UNCHANGED core_vars

\* route_request, its outcome (return value or exception) left in `last`.
route_request_on_table ==
    \E request_body \in Bodies :
      \E request_header_dict \in TableHeadersFor(request_body) :
        /\ last' =
             [body |-> request_body,
              headers |-> request_header_dict,
              outcome |-> route_outcome(handlers, use_debug_mode, application_id,
                                        request_body, request_header_dict),
              replay |-> FALSE,
              first_verdict |-> "no call"]
        /\ call' = [op |-> "route_request"]
        /\ result' = Pending
        /\ UNCHANGED <<handlers, use_debug_mode, application_id, held, decoded>>
        /\ UNCHANGED core_vars

TableNext ==
    \/ default_decorator
    \/ launch_decorator
    \/ event_decorator
    \/ end_decorator
    \/ intent_decorator
    \/ route_request_on_table

TableSpec == Init /\ [][TableNext]_all_vars

(***************************************************************************)
(* C28 -- The handler table.  Every registration (default, launch, event,  *)
(* end, intent(name)) sets the entry of its own key to the function it was *)
(* given (replacing what was there), leaves the entry of every other key   *)
(* as it was (absent or not), and returns the function it was given; every *)
(* route_request call, successful or failing, leaves the whole table as it *)
(* was.  The table starts empty, so each entry is always the function most *)
(* recently registered for its key, or absent if none was.                 *)
(***************************************************************************)
\* The keys of the table: the default key, the request types that take a
\* handler, and each intent name.
TableKeys ==
    {<<k>> : k \in FuncKeys} \cup {<<intent_key, n>> : n \in IntentNames}

Absent == [kind |-> "absent"]

\* The entry of key k in table hs.
Entry(hs, k) ==
    IF Len(k) = 1
    THEN IF k[1] \in DOMAIN hs THEN hs[k[1]] ELSE Absent
    ELSE IF k[2] \in DOMAIN intent_handlers(hs)
         THEN intent_handlers(hs)[k[2]] ELSE Absent

Registrations == {"default", "launch", "event", "end", "intent"}

\* The key the registration c is for.
KeyOf(c) ==
    CASE c.op = "default" -> <<default_key>>
      [] c.op = "launch" -> <<launch_key>>
      [] c.op = "event" -> <<event_key>>
      [] c.op = "end" -> <<session_ended_key>>
      [] c.op = "intent" -> <<intent_key, c.intent_name>>

\* The table holds nothing but the nested intent dict and functions under
\* the keys of TableKeys.
TableShape(hs) ==
    /\ intent_key \in DOMAIN hs
    /\ hs[intent_key].kind = "dict"
    /\ DOMAIN hs \subseteq FuncKeys \cup {intent_key}
    /\ DOMAIN intent_handlers(hs) \subseteq IntentNames

C28_HandlerTable ==
    [][ /\ call'.op \in Registrations =>
             /\ TableShape(handlers')
             /\ Entry(handlers', KeyOf(call')) = Func(call'.func)
             /\ \A k \in TableKeys \ {KeyOf(call')} :
                    Entry(handlers', k) = Entry(handlers, k)
             /\ result' = Returned(call'.func)
             /\ last' = last
        /\ call'.op = "route_request" =>
             /\ handlers' = handlers
             /\ Called(last') ]_all_vars

\* The launch handler was invoked by a request, then launch was registered
\* again with the other function, which replaced it, while the default
\* handler and an intent handler stayed in the table.
C28_Witness ==
    /\ call.op = "launch"
    /\ call.func = "returns_response"
    /\ handlers[launch_key] = Func("returns_response")
    /\ last.outcome.via = <<launch_key>>
    /\ last.outcome.calls = <<[fn |-> "returns_none", arg |-> ParsedRequest(last)]>>
    /\ default_key \in DOMAIN handlers
    /\ handlers[default_key] = Func("returns_none")
    /\ DOMAIN intent_handlers(handlers) # {}

(***************************************************************************)
(* Intent names that collide with the keys of the table                    *)
(***************************************************************************)
\* Intent names equal to each request-type string and to the default key.
CollidingNames ==
    {launch_key, event_key, session_ended_key, intent_key, default_key}

\* Bodies for this application: an IntentRequest for each colliding name
\* and one request of each other supported type.
CollidingBodies ==
    {Body(intent_key, n, "com.line.myApplication") : n \in CollidingNames}
    \cup {Body(t, "", "com.line.myApplication") :
            t \in {launch_key, event_key, session_ended_key}}

\* intent(n)(func) for a colliding name n.
intent_colliding ==
    \E n \in CollidingNames, func \in HandlerFns :
        /\ RoomIntent(n)
        /\ handlers' = intent_store(handlers, n, func)
        /\ call' = [op |-> "intent", intent_name |-> n, func |-> func]
        /\ result' = Returned(func)
        /\ UNCHANGED <<use_debug_mode, application_id, last, held, decoded>>
        /\ UNCHANGED core_vars

\* route_request on one of the colliding bodies, genuinely signed.
route_request_colliding ==
    \E request_body \in CollidingBodies :
      LET request_header_dict == SignatureHeader("SignatureCEK", Sign(request_body))
      IN
        /\ last' =
             [body |-> request_body,
              headers |-> request_header_dict,
              outcome |-> route_outcome(handlers, use_debug_mode, application_id,
                                        request_body, request_header_dict),
              replay |-> FALSE,
              first_verdict |-> "no call"]
        /\ call' = [op |-> "route_request"]
        /\ result' = Pending
        /\ UNCHANGED <<handlers, use_debug_mode, application_id, held, decoded>>
        /\ UNCHANGED core_vars

NamespaceNext ==
    \/ default_decorator
    \/ launch_decorator
    \/ event_decorator
    \/ end_decorator
    \/ intent_colliding
    \/ route_request_colliding

NamespaceSpec == Init /\ [][NamespaceNext]_all_vars

(***************************************************************************)
(* C29 -- Intent names are a namespace of their own.  With intent handlers *)
(* registered under names equal to "LaunchRequest", "EventRequest",        *)
(* "SessionEndedRequest", "IntentRequest" or "_default_": registering such *)
(* an intent handler changes no type-level or default entry of the table;  *)
(* a route_request call invokes an intent handler only for an              *)
(* IntentRequest carrying exactly that name; a Launch, Event or            *)
(* SessionEnded request invokes the top-level entry of its type or else    *)
(* the top-level default entry; and an IntentRequest whose name has no     *)
(* intent handler invokes the top-level default entry.                     *)
(***************************************************************************)
\* The top-level entries: default and type-level registrations.
TopLevel(hs) == [k \in DOMAIN hs \ {intent_key} |-> hs[k]]

C29_IntentNamespace ==
    [][ /\ call'.op = "intent" =>
             /\ TopLevel(handlers') = TopLevel(handlers)
             /\ handlers'[intent_key].kind = "dict"
             /\ call'.intent_name \in DOMAIN intent_handlers(handlers')
             /\ intent_handlers(handlers')[call'.intent_name] = Func(call'.func)
        /\ (call'.op = "route_request" /\ last'.outcome.calls # <<>>) =>
             LET l == last'
                 fn == l.outcome.calls[1].fn
                 via == l.outcome.via
             IN /\ Len(via) = 2 =>
                     /\ BodyType(l) = intent_key
                     /\ via = <<intent_key, BodyName(l)>>
                     /\ fn = intent_handlers(handlers)[BodyName(l)].fn
                /\ Len(via) = 1 =>
                     /\ via[1] \in DOMAIN TopLevel(handlers)
                     /\ fn = TopLevel(handlers)[via[1]].fn
                     /\ IF BodyType(l) = intent_key
                        THEN /\ via = <<default_key>>
                             /\ BodyName(l) \notin DOMAIN intent_handlers(handlers)
                        ELSE /\ via \in {<<BodyType(l)>>, <<default_key>>}
                             /\ via = <<default_key>> =>
                                  BodyType(l) \notin DOMAIN handlers
                /\ Len(via) \in {1, 2} ]_all_vars

\* Intent handlers named "_default_" and "LaunchRequest" hold one function,
\* the default handler holds the other, and a LaunchRequest was handed to
\* the default handler.
C29_Witness ==
    /\ call.op = "route_request"
    /\ IsJson(last)
    /\ {default_key, launch_key} \subseteq DOMAIN intent_handlers(handlers)
    /\ intent_handlers(handlers)[default_key] = Func("returns_none")
    /\ intent_handlers(handlers)[launch_key] = Func("returns_none")
    /\ default_key \in DOMAIN handlers
    /\ handlers[default_key] = Func("returns_response")
    /\ BodyType(last) = launch_key
    /\ last.outcome.via = <<default_key>>
    /\ last.outcome.calls = <<[fn |-> "returns_response", arg |-> ParsedRequest(last)]>>

(***************************************************************************)
(* The dispatcher of cek/core.py, statement by statement                   *)
(***************************************************************************)
\* Request.from_dict without the SessionEndedRequest branch.
from_dict_end_unsupported(request_dict) ==
    LET req_type == request_dict.request.type
    IN IF req_type = "IntentRequest"
       THEN [ok |-> TRUE, class |-> "IntentRequest", request_dict |-> request_dict]
       ELSE IF req_type = "EventRequest"
       THEN [ok |-> TRUE, class |-> "EventRequest", request_dict |-> request_dict]
       ELSE IF req_type = "LaunchRequest"
       THEN [ok |-> TRUE, class |-> "LaunchRequest", request_dict |-> request_dict]
       ELSE [ok |-> FALSE, error |-> "ValueError"]

\* Request.from_dict: the subclass instantiated for request_dict (EndRequest
\* for a SessionEndedRequest), or the ValueError for an unsupported type.
from_dict(request_dict) ==
    LET req_type == request_dict.request.type
    IN IF req_type = "IntentRequest"
       THEN [ok |-> TRUE, class |-> "IntentRequest", request_dict |-> request_dict]
       ELSE IF req_type = "EventRequest"
       THEN [ok |-> TRUE, class |-> "EventRequest", request_dict |-> request_dict]
       ELSE IF req_type = "LaunchRequest"
       THEN [ok |-> TRUE, class |-> "LaunchRequest", request_dict |-> request_dict]
       ELSE IF req_type = "SessionEndedRequest"
       THEN [ok |-> TRUE, class |-> "EndRequest", request_dict |-> request_dict]
       ELSE [ok |-> FALSE, error |-> "ValueError"]

\* handler_fn = self._handlers[self._default_key]
core_default_lookup(hs) ==
    IF core_default_key \in DOMAIN hs
    THEN [ok |-> TRUE, handler_fn |-> hs[core_default_key], via |-> <<core_default_key>>]
    ELSE [ok |-> FALSE, error |-> "KeyError_default"]

\* The if / elif of cek/core.py that replaces handler_fn.
core_select_handler(hs, request, dflt) ==
    LET is_intent_request == request.class = "IntentRequest"
    IN IF is_intent_request
       THEN IF name(request) \in DOMAIN hs[core_intent_key].entries
            THEN [handler_fn |-> hs[core_intent_key].entries[name(request)],
                  via |-> <<core_intent_key, name(request)>>]
            ELSE [handler_fn |-> dflt.handler_fn, via |-> dflt.via]
       ELSE IF type(request) \in DOMAIN hs
            THEN [handler_fn |-> hs[type(request)], via |-> <<type(request)>>]
            ELSE [handler_fn |-> dflt.handler_fn, via |-> dflt.via]

\* The whole of cek/core.py's route_request on table hs.
core_route_outcome(hs, debug_mode, app_id, request_body, request_header_dict) ==
    LET checks == ~debug_mode
        v == IF checks THEN verify_request(request_body, request_header_dict) ELSE "none"
        s1 == IF checks THEN <<"verify">> ELSE <<>>
        js == json_loads(request_body)
        s2 == Append(s1, "decode")
        dflt == core_default_lookup(hs)
        s3 == Append(s2, "default_lookup")
        cr == from_dict(js.value)
        s4 == Append(s3, "create")
        s5 == IF checks THEN Append(s4, "verify_application_id") ELSE s4
        sel == core_select_handler(hs, cr, dflt)
        s6 == Append(s5, "select")
        inv == invoke(sel, cr)
    IN IF v # "none" THEN Raise(v, s1)
       ELSE IF ~js.ok THEN Raise("JSONDecodeError", s2)
       ELSE IF ~dflt.ok THEN Raise(dflt.error, s3)
       ELSE IF ~cr.ok THEN Raise(cr.error, s4)
       ELSE IF checks /\ verify_application_id(cr, app_id)
            THEN Raise("ApplicationIdMismatch", s5)
       ELSE [error |-> inv.error, calls |-> inv.calls,
             handler_returned |-> inv.handler_returned,
             returned |-> inv.returned, via |-> sel.via,
             steps |-> Append(s6, "invoke")]

\* self._handlers[self._intent_key][intent] = func
core_intent_store(hs, n, func) ==
    DictSet(hs, core_intent_key,
            Dict(DictSet(hs[core_intent_key].entries, n, Func(func))))

(***************************************************************************)
(* The two dispatchers side by side                                        *)
(***************************************************************************)
\* The same decorator applied to func on both RequestHandler objects.
DecoratesBoth(key, core_key, func) ==
    /\ Room(key)
    /\ handlers' = store(handlers, key, func)
    /\ core_handlers' = store(core_handlers, core_key, func)
    /\ UNCHANGED <<use_debug_mode, application_id, last, core_last>>
    /\ UNCHANGED builder_vars

default_both ==
    \E func \in HandlerFns : DecoratesBoth(default_key, core_default_key, func)

launch_both ==
    \E func \in HandlerFns : DecoratesBoth(launch_key, core_launch_key, func)

event_both ==
    \E func \in HandlerFns : DecoratesBoth(event_key, core_event_key, func)

end_both ==
    \E func \in HandlerFns : DecoratesBoth(session_ended_key, core_end_key, func)

intent_both ==
    \E n \in IntentNames, func \in HandlerFns :
        /\ RoomIntent(n)
        /\ handlers' = intent_store(handlers, n, func)
        /\ core_handlers' = core_intent_store(core_handlers, n, func)
        /\ UNCHANGED <<use_debug_mode, application_id, last, core_last>>
        /\ UNCHANGED builder_vars

\* The same (body, headers) pair handed to route_request of both.
route_request_both ==
    \E request_body \in Bodies :
      \E request_header_dict \in TableHeadersFor(request_body) :
        /\ last' =
             [body |-> request_body,
              headers |-> request_header_dict,
              outcome |-> route_outcome(handlers, use_debug_mode, application_id,
                                        request_body, request_header_dict),
              replay |-> FALSE,
              first_verdict |-> "no call"]
        /\ core_last' =
             [body |-> request_body,
              headers |-> request_header_dict,
              outcome |-> core_route_outcome(core_handlers, use_debug_mode,
                                             application_id,
                                             request_body, request_header_dict),
              replay |-> FALSE,
              first_verdict |-> "no call"]
        /\ UNCHANGED <<handlers, core_handlers, use_debug_mode, application_id>>
        /\ UNCHANGED builder_vars

EquivalenceNext ==
    \/ default_both
    \/ launch_both
    \/ event_both
    \/ end_both
    \/ intent_both
    \/ route_request_both

EquivalenceSpec == Init /\ [][EquivalenceNext]_all_vars

====
